---------------------------- MODULE Spec2Model ----------------------------
(***************************************************************************)
(* Wallet ledger reconciliation engine of the dataAppBack reseller backend *)
(* (Node.js / Prisma / PostgreSQL).                                        *)
(*                                                                         *)
(* The ledger is one Wallet row and one Transaction row of one user.       *)
(* Every handler is a process whose steps are the handler's awaits: an     *)
(* upstream call, a database read, or a database write/commit.  Prisma     *)
(* runs `$transaction` at the database's default isolation level, which    *)
(* for PostgreSQL is READ COMMITTED: a read inside a transaction sees the  *)
(* rows committed so far, the writes of a transaction become visible       *)
(* together at its commit, and an `increment`/conditional `updateMany` is  *)
(* evaluated on the row as committed when the write takes its row lock.    *)
(* So a transaction is modelled as its reads (one step each) followed by   *)
(* one step that applies all of its writes, or none of them on rollback.   *)
(***************************************************************************)
EXTENDS Integers, Sequences, FiniteSets, TLC

(***************************************************************************)
(* Bounds of the model.                                                    *)
(***************************************************************************)
NumWebhooks == 2        \* concurrent deliveries of the funding webhook
NumSweeps == 2          \* overlapping scheduler runs
NumQueries == 1         \* status requests of the client in flight
NumVendWebhooks == 1    \* deliveries of the fulfilment webhook in flight
NumTransfers == 2       \* transfers a dedicated account receives

VARIABLES
    wallet,      \* Wallet row: [balance, totalSpent]
    txn,         \* Transaction row: [status, amount, fee, type, provRef];
                 \* status "NONE" while the row does not exist
    gateway,     \* payment gateway the funding was initialised with
    kyc,         \* TRUE iff a KycData row exists for the dedicated account
    upstream,    \* what the gateway / provider holds: [status, paid]
    stale,       \* TRUE once createdAt is older than the staleness window
    abandoned,   \* TRUE once createdAt is older than an abandonment window
                 \* (any period longer than the staleness window)
    outage,      \* TRUE while the fulfilment provider's query API answers
                 \* with an error code, whatever the state of the order
    run,         \* the batch a run of a sync job is working through
    io,          \* the socket.io server exists and delivers (initSocket has run)
    call,        \* an outbound gateway call with its retries
    va,          \* the user's dedicated account: the number of transfers
                 \* it has received and the Transaction rows created for
                 \* them, each [reference, providerReference]
    auth,        \* session rows of one user: the presented RefreshToken
                 \* [revoked, expired], the User's failedLoginAttempts and
                 \* lockoutUntil, and what has been handed out so far
    pc,          \* position of every handler instance
    loc,         \* locals of every handler instance
    hist         \* ledger history: number of credits, refunds, debits applied

vars == <<wallet, txn, gateway, kyc, upstream, stale, abandoned, outage, call, io, run, va, auth, pc, loc, hist>>

(***************************************************************************)
(* Fee Policy.                                                             *)
(***************************************************************************)
\* a schedule with the flat fee only
getWalletCreditAmount_flatFee(total) ==
    IF total <= 40 THEN 0 ELSE total - 40

\* the schedule without its safety check for very small amounts
getWalletCreditAmount_noSafetyCheck(total) ==
    IF total <= 2540 THEN total - 40
    ELSE IF total > 102000 THEN total - 2000
    ELSE (total * 98) \div 100

\* Math.floor(total * 0.98) is computed as (total * 98) \div 100: the two
\* agree on every whole amount of the middle tier
getWalletCreditAmount(total) ==
    IF total <= 40 THEN 0
    ELSE IF total <= 2540 THEN total - 40
    ELSE IF total > 102000 THEN total - 2000
    ELSE (total * 98) \div 100

\* Math.max(0, totalPaid - walletCreditAmount)
platformFee(totalPaid, credit) ==
    IF totalPaid - credit > 0 THEN totalPaid - credit ELSE 0

(***************************************************************************)
(* Values.                                                                 *)
(***************************************************************************)
Gateways == {"FLW", "MONNIFY", "PAYSTACK"}
\* TransactionType values the unified sync job routes to VTPass ...
VTPASS_TYPES == {"AIRTIME", "DATA", "ELECTRICITY", "CABLE_TV"}
\* ... and the keys of its PROVIDERS table (Nellobyte education / e-pin)
PROVIDERS == {"EDUCATION", "RECHARGE_PIN"}
Verticals == VTPASS_TYPES \cup PROVIDERS
GrossSet == {2000, 50000}       \* amounts a customer pays at the gateway
FundAmounts == {2000}           \* amounts requested at initGatewayFunding

\* sig is "bad" while a handler serves a request whose signature does not
\* verify (or that carries none)
NoLoc == [gross |-> 0, amount |-> 0, resp |-> "none",
          vertical |-> "none", outcome |-> "none", sig |-> "none",
          attempts |-> 0, late |-> FALSE, flwId |-> 0, ref |-> "none"]
\* a dedicated account that has received one transfer, not yet recorded
NoVA == [transfers |-> 1, rows |-> {}]
\* a fresh refresh token of a user who has not yet failed a login
NoAuth == [revoked |-> FALSE, expired |-> FALSE, issued |-> 0,
           failedLoginAttempts |-> 0, lockoutUntil |-> "null",
           failures |-> 0, window |-> "none"]
NoHist == [credits |-> 0, refunds |-> 0, debits |-> 0, suppressed |-> 0,
           socketErrors |-> 0]

WebhookProcs == {"wh"} \X (1..NumWebhooks)
SweepProcs == {"sw"} \X (1..NumSweeps)
FundProcs == WebhookProcs \cup SweepProcs

\* One step of a handler instance: move p to position next with locals l.
Goto(p, next, l) ==
    /\ pc' = [pc EXCEPT ![p] = next]
    /\ loc' = [loc EXCEPT ![p] = l]

\* Handler instances of one kind are interchangeable while idle, so the
\* next request or cron run is always given to the lowest idle instance.
NextIdle(p, S) == pc[p] = "idle" /\ \A q \in S : q[2] < p[2] => pc[q] # "idle"

\* the handler returns; only the HTTP response it has sent is remembered
Finish(p) == Goto(p, "done", [NoLoc EXCEPT !.resp = loc[p].resp])

\* the webhook handler logs why it drops the event and returns:
\* "unverified" (the gateway's own record of the payment is not a success)
\* or "unassociated" (no Transaction / KycData row leads to a user)
Reject(p, why) == Goto(p, "done", [NoLoc EXCEPT !.resp = loc[p].resp,
                                               !.outcome = why])

\* a scheduler run ends; cron starts the next one from scratch
EndRun(p) == Goto(p, "idle", NoLoc)

LedgerUnchanged == UNCHANGED <<wallet, txn, hist>>

\* the handler logs "duplicate suppressed" / "already processed" and writes nothing
Suppressed ==
    /\ UNCHANGED <<wallet, txn>>
    /\ hist' = [hist EXCEPT !.suppressed = @ + 1]

\* what gateway g answers about this Transaction's reference: a reference
\* initialised at another gateway is unknown to g
gatewayView(g) == IF gateway = g THEN upstream.status ELSE "notfound"
EnvUnchanged == UNCHANGED <<gateway, kyc, upstream, stale, abandoned, outage, call, io, run, va, auth>>

(***************************************************************************)
(* Ledger writes.                                                          *)
(***************************************************************************)
\* wallet.update/upsert({ balance: { increment: credit } }) of a funding
CreditWallet(credit) ==
    /\ wallet' = [wallet EXCEPT !.balance = @ + credit]
    /\ hist' = [hist EXCEPT !.credits = @ + 1]

\* the wallet credit of a webhook whose wallet_funded emit is not caught: a
\* throwing getIO() leaves the callback and the credit is rolled back
CreditAndNotify_emitUncaught(credit) ==
    IF io THEN CreditWallet(credit)
    ELSE /\ UNCHANGED wallet
         /\ hist' = [hist EXCEPT !.socketErrors = @ + 1]

\* the wallet credit of a webhook, followed inside the same callback by
\* try { getIO().to(userId).emit('wallet_funded', ...) } catch (socketErr)
\* { console.error(...) }: getIO() throws while the server is not initialised
CreditAndNotify(credit) ==
    /\ wallet' = [wallet EXCEPT !.balance = @ + credit]
    /\ hist' = [hist EXCEPT !.credits = @ + 1,
                            !.socketErrors = IF io THEN @ ELSE @ + 1]

\* the notifier stops or resumes working: the handler runs where initSocket
\* has not been called, or the emit throws
SocketChanges ==
    /\ io' = ~io
    /\ UNCHANGED <<wallet, txn, gateway, kyc, upstream, stale, abandoned, outage, call, run, va, auth, pc, loc, hist>>

\* transaction.update({ status: SUCCESS, providerReference, fee })
MarkFunded(fee) ==
    txn' = [txn EXCEPT !.status = "SUCCESS", !.provRef = TRUE, !.fee = fee]

\* createdAt falls behind the abandonment window
AbandonmentWindowPasses ==
    /\ stale /\ ~abandoned
    /\ abandoned' = TRUE
    /\ UNCHANGED <<wallet, txn, gateway, kyc, upstream, stale, outage, call, io, run, va, auth, pc, loc, hist>>

(***************************************************************************)
(* The gateway (environment).                                              *)
(***************************************************************************)
CustomerOpensCheckout ==
    /\ upstream.status = "notfound"
    /\ upstream' = [upstream EXCEPT !.status = "pending"]
    /\ UNCHANGED <<wallet, txn, gateway, kyc, stale, abandoned, outage, call, io, run, va, auth, pc, loc, hist>>

CustomerPays ==
    /\ upstream.status \in {"notfound", "pending"}
    /\ \E g \in GrossSet :
          upstream' = [status |-> "successful", paid |-> g]
    /\ UNCHANGED <<wallet, txn, gateway, kyc, stale, abandoned, outage, call, io, run, va, auth, pc, loc, hist>>

PaymentFails ==
    /\ upstream.status = "pending"
    /\ upstream' = [upstream EXCEPT !.status = "failed"]
    /\ UNCHANGED <<wallet, txn, gateway, kyc, stale, abandoned, outage, call, io, run, va, auth, pc, loc, hist>>

\* createdAt falls behind the two-minute staleness window
StalenessWindowPasses ==
    /\ ~stale
    /\ txn.status # "NONE"
    /\ stale' = TRUE
    /\ UNCHANGED <<wallet, txn, gateway, kyc, upstream, abandoned, outage, call, io, run, va, auth, pc, loc, hist>>

(***************************************************************************)
(* Webhook ingestion: Flutterwave (gateway payments, reference FUND-...).  *)
(***************************************************************************)
\* updateMany({ where: { reference, status: { not: 'SUCCESS' } } }).count
updateManyCount_ignoresStatus(row) == 1

updateManyCount(row) == IF row.status # "SUCCESS" /\ row.status # "NONE" THEN 1 ELSE 0

\* signature check, 401 or the 200 acknowledgement, event filter
handleFlutterwaveWebhook_ack(p) ==
    /\ gateway = "FLW" /\ p \in WebhookProcs /\ NextIdle(p, WebhookProcs)
    /\ \E sigOk \in BOOLEAN, eventOk \in BOOLEAN :
          IF ~sigOk THEN Goto(p, "done", [NoLoc EXCEPT !.resp = "401",
                                                        !.sig = "bad"])
          ELSE IF ~eventOk THEN Goto(p, "done", [NoLoc EXCEPT !.resp = "200"])
          ELSE Goto(p, "verify", [NoLoc EXCEPT !.resp = "200"])
    /\ LedgerUnchanged /\ EnvUnchanged

\* a handler that takes the webhook's word for the payment
handleFlutterwaveWebhook_verify_trusting(p) ==
    /\ gateway = "FLW" /\ p \in WebhookProcs /\ pc[p] = "verify"
    /\ \E g \in GrossSet : Goto(p, "associate", [loc[p] EXCEPT !.gross = g])
    /\ LedgerUnchanged /\ EnvUnchanged

\* await paymentProvider.verifyTransaction(reference)
handleFlutterwaveWebhook_verify(p) ==
    /\ gateway = "FLW" /\ p \in WebhookProcs /\ pc[p] = "verify"
    /\ \/ Finish(p)                                  \* the call throws
       \/ IF upstream.status = "successful"
          THEN Goto(p, "associate", [loc[p] EXCEPT !.gross = upstream.paid])
          ELSE Reject(p, "unverified")
    /\ LedgerUnchanged /\ EnvUnchanged

\* findUnique({ where: { reference } }), getWalletCreditAmount, <= 0 check
handleFlutterwaveWebhook_associate(p) ==
    /\ gateway = "FLW" /\ p \in WebhookProcs /\ pc[p] = "associate"
    /\ loc[p].vertical # "va"
    /\ IF txn.status = "NONE" \/ getWalletCreditAmount(loc[p].gross) <= 0
       THEN Reject(p, "unassociated")
       ELSE Goto(p, "commit", loc[p])
    /\ LedgerUnchanged /\ EnvUnchanged

\* prisma.$transaction: conditional updateMany, then wallet.upsert
handleFlutterwaveWebhook_commit(p) ==
    /\ gateway = "FLW" /\ p \in WebhookProcs /\ pc[p] = "commit"
    /\ Finish(p)
    /\ EnvUnchanged
    /\ \/ LedgerUnchanged                            \* storage error: rollback
       \/ LET credit == getWalletCreditAmount(loc[p].gross) IN
          IF updateManyCount(txn) = 0 THEN Suppressed
          ELSE /\ MarkFunded(platformFee(loc[p].gross, credit))
               /\ CreditAndNotify(credit)

(***************************************************************************)
(* Webhook ingestion: Monnify (gateway payments).                          *)
(***************************************************************************)
\* HMAC check, 401 or 200, eventType / paymentStatus filter; the payload
\* carries eventData.amountPaid
handleMonnifyWebhook_ack(p) ==
    /\ gateway = "MONNIFY" /\ p \in WebhookProcs /\ NextIdle(p, WebhookProcs)
    /\ \E sigOk \in BOOLEAN, eventOk \in BOOLEAN, amountPaid \in GrossSet :
          IF ~sigOk THEN Goto(p, "done", [NoLoc EXCEPT !.resp = "401",
                                                        !.sig = "bad"])
          ELSE IF ~eventOk THEN Goto(p, "done", [NoLoc EXCEPT !.resp = "200"])
          ELSE Goto(p, "verify", [NoLoc EXCEPT !.resp = "200", !.gross = amountPaid])
    /\ LedgerUnchanged /\ EnvUnchanged

\* await monnifyProvider.verifyTransaction(paymentRef); throws on 404
handleMonnifyWebhook_verify(p) ==
    /\ gateway = "MONNIFY" /\ p \in WebhookProcs /\ pc[p] = "verify"
    /\ \/ Finish(p)
       \/ IF upstream.status = "successful"
          THEN Goto(p, "associate", loc[p])
          ELSE Reject(p, "unverified")
    /\ LedgerUnchanged /\ EnvUnchanged

\* findUnique({ where: { reference: paymentRef } })
handleMonnifyWebhook_associate(p) ==
    /\ gateway = "MONNIFY" /\ p \in WebhookProcs /\ pc[p] = "associate"
    /\ loc[p].vertical # "va"
    /\ IF txn.status = "NONE" THEN Reject(p, "unassociated")
                             ELSE Goto(p, "commit", loc[p])
    /\ LedgerUnchanged /\ EnvUnchanged

\* prisma.$transaction: conditional updateMany, then wallet.update
handleMonnifyWebhook_commit(p) ==
    /\ gateway = "MONNIFY" /\ p \in WebhookProcs /\ pc[p] = "commit"
    /\ Finish(p)
    /\ EnvUnchanged
    /\ \/ LedgerUnchanged
       \/ LET credit == getWalletCreditAmount(loc[p].gross) IN
          IF updateManyCount(txn) = 0 THEN Suppressed
          ELSE /\ MarkFunded(loc[p].gross - credit)
               /\ CreditWallet(credit)

(***************************************************************************)
(* Webhook ingestion: Paystack (charge.success).                           *)
(***************************************************************************)
\* existingTx.status !== TransactionStatus.PENDING  (and !existingTx)
notPending(row) == row.status # "PENDING"

handlePaystackWebhook_ack(p) ==
    /\ gateway = "PAYSTACK" /\ p \in WebhookProcs /\ NextIdle(p, WebhookProcs)
    /\ \E sigOk \in BOOLEAN, eventOk \in BOOLEAN :
          IF ~sigOk THEN Goto(p, "done", [NoLoc EXCEPT !.resp = "401",
                                                        !.sig = "bad"])
          ELSE IF ~eventOk THEN Goto(p, "done", [NoLoc EXCEPT !.resp = "200"])
          ELSE Goto(p, "verify", [NoLoc EXCEPT !.resp = "200"])
    /\ LedgerUnchanged /\ EnvUnchanged

\* await paystackProvider.verifyTransaction(reference)
handleChargeSuccess_verify(p) ==
    /\ gateway = "PAYSTACK" /\ p \in WebhookProcs /\ pc[p] = "verify"
    /\ \/ Finish(p)
       \/ IF upstream.status = "successful"
          THEN Goto(p, "txread", [loc[p] EXCEPT !.gross = upstream.paid])
          ELSE Reject(p, "unverified")
    /\ LedgerUnchanged /\ EnvUnchanged

\* inside $transaction: findUnique and the PENDING check
handleChargeSuccess_txread(p) ==
    /\ gateway = "PAYSTACK" /\ p \in WebhookProcs /\ pc[p] = "txread"
    /\ IF notPending(txn)
       THEN Finish(p) /\ Suppressed
       ELSE Goto(p, "txwrite", loc[p]) /\ LedgerUnchanged
    /\ EnvUnchanged

\* inside $transaction: wallet.update, transaction.update, commit
handleChargeSuccess_txwrite(p) ==
    /\ gateway = "PAYSTACK" /\ p \in WebhookProcs /\ pc[p] = "txwrite"
    /\ Finish(p)
    /\ EnvUnchanged
    /\ \/ LedgerUnchanged
       \/ LET credit == getWalletCreditAmount(loc[p].gross) IN
          /\ MarkFunded(platformFee(loc[p].gross, credit))
          /\ CreditAndNotify(credit)

(***************************************************************************)
(* Reconciliation scheduler: funding.  The server starts the unified sync  *)
(* job and the Monnify sync job; neither filters by gateway, so each       *)
(* selects every stale PENDING funding.  The Paystack job filters on       *)
(* metadata.provider = 'PAYSTACK'.                                         *)
(***************************************************************************)
\* findMany({ where: { status: PENDING, createdAt: { lt: twoMinutesAgo } } })
selectsPending(row, isStale) == row.status = "PENDING" /\ isStale

\* the unconditional transaction.update({ data: { status: FAILED } })
MarkFailedById == txn' = [txn EXCEPT !.status = "FAILED"]

\* --- unified sync job, CASE A: reconcileFunding (Flutterwave verify) ---
startTransactionSync_select(p) ==
    /\ p \in SweepProcs /\ NextIdle(p, SweepProcs)
    /\ IF selectsPending(txn, stale)
       THEN LET snapshot == [NoLoc EXCEPT !.amount = txn.amount,
                                         !.vertical = txn.type,
                                         !.resp = IF txn.provRef THEN "ref" ELSE "none"]
            IN  CASE txn.type = "WALLET_FUNDING" -> Goto(p, "u_verify", snapshot)
                  [] txn.type \in VTPASS_TYPES -> Goto(p, "v_query", snapshot)
                  [] txn.type \in PROVIDERS -> Goto(p, "l_query", snapshot)
                  [] OTHER -> EndRun(p)
       ELSE EndRun(p)
    /\ LedgerUnchanged /\ EnvUnchanged

\* await paymentProvider.verifyTransaction(txn.reference)
reconcileFunding_verify(p) ==
    /\ p \in SweepProcs /\ pc[p] = "u_verify"
    /\ \/ EndRun(p)                                  \* throws: logged, next item
       \/ CASE gatewayView("FLW") = "successful" ->
                 Goto(p, "u_txread", [loc[p] EXCEPT !.gross = upstream.paid])
            [] gatewayView("FLW") = "failed" -> Goto(p, "u_markfailed", loc[p])
            [] OTHER -> EndRun(p)
    /\ LedgerUnchanged /\ EnvUnchanged

\* inside $transaction: findUnique and the PENDING check
reconcileFunding_txread(p) ==
    /\ p \in SweepProcs /\ pc[p] = "u_txread"
    /\ IF notPending(txn) THEN EndRun(p) ELSE Goto(p, "u_txwrite", loc[p])
    /\ LedgerUnchanged /\ EnvUnchanged

\* inside $transaction: wallet.upsert, transaction.update, commit
reconcileFunding_txwrite(p) ==
    /\ p \in SweepProcs /\ pc[p] = "u_txwrite"
    /\ EndRun(p)
    /\ EnvUnchanged
    /\ \/ LedgerUnchanged
       \/ LET credit == getWalletCreditAmount(loc[p].gross) IN
          /\ MarkFunded(platformFee(loc[p].gross, credit))
          /\ CreditWallet(credit)

reconcileFunding_markFailed(p) ==
    /\ p \in SweepProcs /\ pc[p] = "u_markfailed"
    /\ EndRun(p)
    /\ EnvUnchanged
    /\ \/ LedgerUnchanged
       \/ MarkFailedById /\ UNCHANGED <<wallet, hist>>

\* --- Monnify sync job ---
startMonnifyTransactionSync_select(p) ==
    /\ p \in SweepProcs /\ NextIdle(p, SweepProcs)
    /\ IF txn.type = "WALLET_FUNDING" /\ selectsPending(txn, stale)
       THEN Goto(p, "m_verify", [NoLoc EXCEPT !.amount = txn.amount])
       ELSE EndRun(p)
    /\ LedgerUnchanged /\ EnvUnchanged

\* await monnifyProvider.verifyTransaction(txn.reference); a 404 is caught
\* and marks the Transaction FAILED
startMonnifyTransactionSync_verify(p) ==
    /\ p \in SweepProcs /\ pc[p] = "m_verify"
    /\ \/ EndRun(p)                                  \* other error: logged
       \/ CASE gatewayView("MONNIFY") = "successful" -> Goto(p, "m_txread", loc[p])
            [] gatewayView("MONNIFY") \in {"failed", "notfound"} ->
                 Goto(p, "m_markfailed", loc[p])
            [] OTHER -> EndRun(p)
    /\ LedgerUnchanged /\ EnvUnchanged

startMonnifyTransactionSync_txread(p) ==
    /\ p \in SweepProcs /\ pc[p] = "m_txread"
    /\ IF notPending(txn) THEN EndRun(p) ELSE Goto(p, "m_txwrite", loc[p])
    /\ LedgerUnchanged /\ EnvUnchanged

\* principalToCredit = Number(txn.amount)
startMonnifyTransactionSync_txwrite(p) ==
    /\ p \in SweepProcs /\ pc[p] = "m_txwrite"
    /\ EndRun(p)
    /\ EnvUnchanged
    /\ \/ LedgerUnchanged
       \/ /\ txn' = [txn EXCEPT !.status = "SUCCESS", !.provRef = TRUE]
          /\ CreditWallet(loc[p].amount)

startMonnifyTransactionSync_markFailed(p) ==
    /\ p \in SweepProcs /\ pc[p] = "m_markfailed"
    /\ EndRun(p)
    /\ EnvUnchanged
    /\ \/ LedgerUnchanged
       \/ MarkFailedById /\ UNCHANGED <<wallet, hist>>

\* --- Paystack sync job ---
startPaystackTransactionSync_select(p) ==
    /\ p \in SweepProcs /\ NextIdle(p, SweepProcs)
    /\ IF txn.type = "WALLET_FUNDING" /\ selectsPending(txn, stale) /\ gateway = "PAYSTACK"
       THEN Goto(p, "p_verify", [NoLoc EXCEPT !.amount = txn.amount])
       ELSE EndRun(p)
    /\ LedgerUnchanged /\ EnvUnchanged

\* await paystackProvider.verifyTransaction(txn.reference); a 404 is logged
startPaystackTransactionSync_verify(p) ==
    /\ p \in SweepProcs /\ pc[p] = "p_verify"
    /\ \/ EndRun(p)
       \/ CASE gatewayView("PAYSTACK") = "successful" ->
                 Goto(p, "p_txread", [loc[p] EXCEPT !.gross = upstream.paid])
            [] gatewayView("PAYSTACK") = "failed" -> Goto(p, "p_markfailed", loc[p])
            [] OTHER -> EndRun(p)
    /\ LedgerUnchanged /\ EnvUnchanged

startPaystackTransactionSync_txread(p) ==
    /\ p \in SweepProcs /\ pc[p] = "p_txread"
    /\ IF notPending(txn) THEN EndRun(p) ELSE Goto(p, "p_txwrite", loc[p])
    /\ LedgerUnchanged /\ EnvUnchanged

startPaystackTransactionSync_txwrite(p) ==
    /\ p \in SweepProcs /\ pc[p] = "p_txwrite"
    /\ EndRun(p)
    /\ EnvUnchanged
    /\ \/ LedgerUnchanged
       \/ LET credit == getWalletCreditAmount(loc[p].gross) IN
          /\ MarkFunded(platformFee(loc[p].gross, credit))
          /\ CreditWallet(credit)

startPaystackTransactionSync_markFailed(p) ==
    /\ p \in SweepProcs /\ pc[p] = "p_markfailed"
    /\ EndRun(p)
    /\ EnvUnchanged
    /\ \/ LedgerUnchanged
       \/ MarkFailedById /\ UNCHANGED <<wallet, hist>>

(***************************************************************************)
(* Purchase orchestrator.  The six purchase handlers (purchaseAirtime,     *)
(* purchaseData, purchaseElectricity, purchaseSubscription, purchasePin,   *)
(* printPins) share one shape; they differ in the TransactionType they     *)
(* write, in whether the provider can answer "processing", and in whether  *)
(* the catch block asks isNetworkError before refunding.                   *)
(***************************************************************************)
Prices == {200}                 \* selling price of the requested product
OpeningBalances == {100, 500}   \* wallet balance when the request arrives
Buyer == <<"buy", 1>>
BuyerProcs == {Buyer}

NoRow == [status |-> "NONE", amount |-> 0, fee |-> 0,
          type |-> "NONE", provRef |-> FALSE]

\* a balance check that lets every request through
insufficientBalance_never(w, price) == FALSE

\* !wallet || Number(wallet.balance) < sellingPrice
insufficientBalance(w, price) == w.balance < price

\* lib/financialSafety: ECONNABORTED, ETIMEDOUT, ERR_NETWORK, ECONNRESET,
\* ENOTFOUND or a timeout / network error message
isNetworkError(err) == err \in {"ETIMEDOUT", "ENOTFOUND"}

\* the catch block of every handler but purchasePin (education) starts with
\* `if (isNetworkError(apiError)) return res.status(202)`
checksNetworkError(vertical) == vertical # "EDUCATION"

\* providerResponse.isPending exists only in the VTPass responses
mayAnswerProcessing(vertical) == vertical \in VTPASS_TYPES

\* a debit that is committed without its Transaction row
DebitAndCreate_walletOnly(price, type) ==
    /\ wallet' = [balance |-> wallet.balance - price,
                  totalSpent |-> wallet.totalSpent + price]
    /\ hist' = [hist EXCEPT !.debits = @ + 1]
    /\ UNCHANGED txn

\* a refund that restores the balance but leaves totalSpent as it was
RefundWallet_balanceOnly(amount) ==
    /\ wallet' = [wallet EXCEPT !.balance = @ + amount]
    /\ hist' = [hist EXCEPT !.refunds = @ + 1]

\* tx.transaction.create({ status: PENDING }) and tx.wallet.update({
\* balance: { decrement }, totalSpent: { increment } }) of one $transaction
DebitAndCreate(price, type) ==
    /\ txn' = [status |-> "PENDING", amount |-> price, fee |-> 0,
               type |-> type, provRef |-> FALSE]
    /\ wallet' = [balance |-> wallet.balance - price,
                  totalSpent |-> wallet.totalSpent + price]
    /\ hist' = [hist EXCEPT !.debits = @ + 1]

\* wallet.update({ balance: { increment }, totalSpent: { decrement } })
RefundWallet(amount) ==
    /\ wallet' = [balance |-> wallet.balance + amount,
                  totalSpent |-> wallet.totalSpent - amount]
    /\ hist' = [hist EXCEPT !.refunds = @ + 1]

\* $transaction([transaction.update({ status: FAILED }), wallet.update(...)])
MarkFailedAndRefund(amount) ==
    /\ txn' = [txn EXCEPT !.status = "FAILED"]
    /\ RefundWallet(amount)

\* the request passed validation; price and vertical are fixed
purchase_validate(p) ==
    /\ p \in BuyerProcs /\ pc[p] = "idle"
    /\ \E v \in Verticals, price \in Prices :
          Goto(p, "b_txread", [NoLoc EXCEPT !.vertical = v, !.amount = price])
    /\ LedgerUnchanged /\ EnvUnchanged

\* inside $transaction: wallet.findUnique and the balance check
purchase_txread(p) ==
    /\ p \in BuyerProcs /\ pc[p] = "b_txread"
    /\ IF insufficientBalance(wallet, loc[p].amount)
       THEN Goto(p, "done", [NoLoc EXCEPT !.resp = "402"])
       ELSE Goto(p, "b_txwrite", loc[p])
    /\ LedgerUnchanged /\ EnvUnchanged

\* inside $transaction: transaction.create, wallet.update, commit
purchase_txwrite(p) ==
    /\ p \in BuyerProcs /\ pc[p] = "b_txwrite"
    /\ EnvUnchanged
    /\ \/ /\ DebitAndCreate(loc[p].amount, loc[p].vertical)
          /\ Goto(p, "b_call", loc[p])
       \/ /\ LedgerUnchanged                       \* rollback: 500
          /\ Goto(p, "done", [NoLoc EXCEPT !.resp = "500"])

\* what the fulfilment provider holds about the order after the call, and
\* what the handler sees of it
ProviderAnswers(vertical) ==
    {[order |-> "delivered", sees |-> "delivered"],
     [order |-> "failed", sees |-> "rejected"],
     [order |-> "notfound", sees |-> "ENOTFOUND"]}
    \cup {[order |-> o, sees |-> "ETIMEDOUT"] :
              o \in {"notfound", "pending", "delivered", "failed"}}
    \cup (IF mayAnswerProcessing(vertical)
          THEN {[order |-> "pending", sees |-> "pending"]}
          ELSE {})
    \cup (IF vertical = "EDUCATION"       \* ORDER_RECEIVED counts as success
          THEN {[order |-> "pending", sees |-> "delivered"]}
          ELSE {})

\* await provider.buyX(..., result.requestId)
purchase_callProvider(p) ==
    /\ p \in BuyerProcs /\ pc[p] = "b_call"
    /\ \E a \in ProviderAnswers(loc[p].vertical) :
          /\ upstream' = [upstream EXCEPT !.status = a.order]
          /\ Goto(p, IF a.sees \in {"delivered", "pending"}
                     THEN "b_update" ELSE "b_catch",
                  [loc[p] EXCEPT !.outcome = a.sees])
    /\ LedgerUnchanged /\ UNCHANGED <<gateway, kyc, stale, abandoned, outage, call, io, run, va, auth>>

\* transaction.update({ where: { id }, data: { status: finalStatus,
\* providerReference } }) - no condition on the current status
purchase_update(p) ==
    /\ p \in BuyerProcs /\ pc[p] = "b_update"
    /\ EnvUnchanged
    /\ \/ /\ txn' = [txn EXCEPT
                       !.status = IF loc[p].outcome = "pending"
                                  THEN "PENDING" ELSE "SUCCESS",
                       !.provRef = TRUE]
          /\ UNCHANGED <<wallet, hist>>
          /\ Goto(p, "done",
                  [NoLoc EXCEPT !.resp = IF loc[p].outcome = "pending"
                                         THEN "202" ELSE "200"])
       \/ /\ LedgerUnchanged                 \* the update throws: caught below
          /\ Goto(p, "b_catch", [loc[p] EXCEPT !.outcome = "storage"])

\* catch (apiError)
purchase_catch(p) ==
    /\ p \in BuyerProcs /\ pc[p] = "b_catch"
    /\ EnvUnchanged
    /\ IF checksNetworkError(loc[p].vertical) /\ isNetworkError(loc[p].outcome)
       THEN /\ LedgerUnchanged
            /\ Goto(p, "done", [NoLoc EXCEPT !.resp = "202"])
       ELSE \/ /\ MarkFailedAndRefund(loc[p].amount)
               /\ Goto(p, "done", [NoLoc EXCEPT !.resp = "502"])
            \/ /\ LedgerUnchanged            \* refund rolled back: 500
               /\ Goto(p, "done", [NoLoc EXCEPT !.resp = "500"])

\* the process dies between two awaits of the handler
HandlerCrashes(p) ==
    /\ p \in BuyerProcs /\ pc[p] \in {"b_txread", "b_txwrite", "b_call",
                                      "b_update", "b_catch"}
    /\ Goto(p, "crashed", NoLoc)
    /\ LedgerUnchanged /\ EnvUnchanged

\* the provider settles an order it was still processing
ProviderDelivers ==
    /\ txn.type \in Verticals /\ upstream.status = "pending"
    /\ upstream' = [upstream EXCEPT !.status = "delivered"]
    /\ UNCHANGED <<wallet, txn, gateway, kyc, stale, abandoned, outage, call, io, run, va, auth, pc, loc, hist>>

ProviderReverses ==
    /\ txn.type \in Verticals /\ upstream.status = "pending"
    /\ upstream' = [upstream EXCEPT !.status = "failed"]
    /\ UNCHANGED <<wallet, txn, gateway, kyc, stale, abandoned, outage, call, io, run, va, auth, pc, loc, hist>>


(***************************************************************************)
(* Fulfilment webhook of VTPass (transaction-update events).               *)
(***************************************************************************)
VendWebhookProcs == {"vw"} \X (1..NumVendWebhooks)

\* VTPass reports the order's final state: delivered, or reversed / failed.
\* The handler answers 200 at once and runs on, without an await, to
\* prisma.transaction.findUnique({ reference: requestId }) - outside any
\* transaction - and the PENDING check on that snapshot.
handleVTPassWebhook_find(p) ==
    /\ p \in VendWebhookProcs /\ NextIdle(p, VendWebhookProcs)
    /\ txn.type \in VTPASS_TYPES
    /\ upstream.status \in {"delivered", "failed"}
    /\ EnvUnchanged
    /\ IF notPending(txn)
       THEN /\ Suppressed
            /\ Goto(p, "done", [NoLoc EXCEPT !.resp = "200"])
       ELSE /\ LedgerUnchanged
            /\ Goto(p, "w_write", [NoLoc EXCEPT !.resp = "200",
                                               !.outcome = upstream.status,
                                               !.amount = txn.amount])

\* A transaction-update POST that VTPass did not send. The route has no
\* middleware and the handler checks no signature: it answers 200 and
\* processes the body, whose requestId and status the sender chose. The
\* Transaction is looked up by reference, whatever its type.
handleVTPassWebhook_unsigned(p) ==
    /\ p \in VendWebhookProcs /\ NextIdle(p, VendWebhookProcs)
    /\ EnvUnchanged /\ LedgerUnchanged
    /\ \E claimed \in {"delivered", "failed"} :
          IF notPending(txn)
          THEN Goto(p, "done", [NoLoc EXCEPT !.resp = "200", !.sig = "bad"])
          ELSE Goto(p, "w_write", [NoLoc EXCEPT !.resp = "200",
                                               !.sig = "bad",
                                               !.outcome = claimed,
                                               !.amount = txn.amount])

\* a handler that also pays the amount back when the order is delivered
processTransactionUpdate_write_refundsDelivered(p) ==
    /\ p \in VendWebhookProcs /\ pc[p] = "w_write"
    /\ EnvUnchanged
    /\ Finish(p)
    /\ txn' = [txn EXCEPT !.status = IF loc[p].outcome = "delivered"
                                     THEN "SUCCESS" ELSE "FAILED",
                          !.provRef = TRUE]
    /\ RefundWallet(loc[p].amount)

\* delivered: transaction.update({ status: SUCCESS });
\* reversed/failed: $transaction(update FAILED, wallet refund) by id
processTransactionUpdate_write(p) ==
    /\ p \in VendWebhookProcs /\ pc[p] = "w_write"
    /\ EnvUnchanged
    /\ Finish(p)
    /\ \/ LedgerUnchanged                          \* throws: logged
       \/ IF loc[p].outcome = "delivered"
          THEN /\ txn' = [txn EXCEPT !.status = "SUCCESS", !.provRef = TRUE]
               /\ UNCHANGED <<wallet, hist>>
          ELSE /\ txn' = [txn EXCEPT !.status = "FAILED", !.provRef = TRUE]
               /\ RefundWallet(loc[p].amount)

(***************************************************************************)
(* Scheduler sweep, CASE B and CASE C: service Transactions.               *)
(***************************************************************************)
\* the provider's query API is, or stops being, in an error condition
ProviderQueryDegrades ==
    /\ outage' = ~outage
    /\ UNCHANGED <<wallet, txn, gateway, kyc, upstream, stale, abandoned, call, io, run, va, auth, pc, loc, hist>>

\* what POST /requery answers for the order: code 000 with the order's
\* status, no such request id, or - during an outage - an error code
requery ==
    IF outage THEN [code |-> "083", status |-> "none"]
    ELSE IF upstream.status = "notfound" THEN [code |-> "015", status |-> "none"]
    ELSE [code |-> "000", status |-> upstream.status]

\* vtpassProvider.queryTransaction: unifiedStatus starts as FAILED; code 000
\* + delivered is SUCCESS, code 000 + pending/initiated or code 099 is
\* PENDING, anything else stays FAILED
queryTransaction(data) ==
    CASE data.code = "000" /\ data.status = "delivered" -> "SUCCESS"
      [] data.code = "000" /\ data.status \in {"pending", "initiated"} -> "PENDING"
      [] data.code = "099" -> "PENDING"
      [] OTHER -> "FAILED"

\* Nellobyte APIQueryV1: statuscode 200 for a completed order, otherwise
\* the order's status word
legacyQuery(order) ==
    CASE order = "delivered" -> "200"
      [] order = "pending" -> "ORDER_RECEIVED"
      [] order = "failed" -> "ORDER_FAILED"
      [] OTHER -> "MISSING_ORDERID"

\* the unconditional transaction.update({ data: { status: SUCCESS } })
MarkSuccessById ==
    /\ txn' = [txn EXCEPT !.status = "SUCCESS"]
    /\ UNCHANGED <<wallet, hist>>

\* await vtpassProvider.queryTransaction(txn.reference).catch(() => null)
reconcileVTPassService_query(p) ==
    /\ p \in SweepProcs /\ pc[p] = "v_query"
    /\ \/ EndRun(p)                                \* null: wait for next cycle
       \/ CASE queryTransaction(requery) = "SUCCESS" ->
                 Goto(p, "v_success", loc[p])
            [] queryTransaction(requery) = "FAILED" ->
                 Goto(p, "v_refund", loc[p])
            [] OTHER -> EndRun(p)
    /\ LedgerUnchanged /\ EnvUnchanged

reconcileVTPassService_markSuccess(p) ==
    /\ p \in SweepProcs /\ pc[p] = "v_success"
    /\ EndRun(p)
    /\ EnvUnchanged
    /\ (LedgerUnchanged \/ MarkSuccessById)

reconcileVTPassService_refund(p) ==
    /\ p \in SweepProcs /\ pc[p] = "v_refund"
    /\ EndRun(p)
    /\ EnvUnchanged
    /\ (LedgerUnchanged \/ MarkFailedAndRefund(loc[p].amount))

\* await provider.queryTransaction(txn.providerReference || txn.reference)
reconcileLegacyService_query(p) ==
    /\ p \in SweepProcs /\ pc[p] = "l_query"
    /\ \/ EndRun(p)                                \* throws: logged
       \/ CASE legacyQuery(upstream.status) = "200" ->
                 Goto(p, "l_success", loc[p])
            [] legacyQuery(upstream.status) \in {"ORDER_CANCELLED", "ORDER_FAILED"} ->
                 Goto(p, "l_refund", loc[p])
            [] OTHER -> EndRun(p)
    /\ LedgerUnchanged /\ EnvUnchanged

reconcileLegacyService_markSuccess(p) ==
    /\ p \in SweepProcs /\ pc[p] = "l_success"
    /\ EndRun(p)
    /\ EnvUnchanged
    /\ (LedgerUnchanged \/ MarkSuccessById)

reconcileLegacyService_refund(p) ==
    /\ p \in SweepProcs /\ pc[p] = "l_refund"
    /\ EndRun(p)
    /\ EnvUnchanged
    /\ (LedgerUnchanged \/ MarkFailedAndRefund(loc[p].amount))

(***************************************************************************)
(* Synchronous status check (getAirtimeStatus / getDataStatus).            *)
(***************************************************************************)
QueryProcs == {"sq"} \X (1..NumQueries)

\* prisma.transaction.findUnique({ reference }); the provider is asked only
\* if (txn.status === PENDING && txn.providerReference)
getAirtimeStatus_find(p) ==
    /\ p \in QueryProcs /\ NextIdle(p, QueryProcs)
    /\ txn.type \in {"AIRTIME", "DATA"}
    /\ IF txn.status = "PENDING" /\ txn.provRef
       THEN Goto(p, "q_query", [NoLoc EXCEPT !.amount = txn.amount])
       ELSE Goto(p, "idle", NoLoc)
    /\ LedgerUnchanged /\ EnvUnchanged

\* await vtpassProvider.queryTransaction(txn.reference).catch(() => null)
getAirtimeStatus_query(p) ==
    /\ p \in QueryProcs /\ pc[p] = "q_query"
    /\ \/ EndRun(p)
       \/ CASE queryTransaction(requery) = "SUCCESS" ->
                 Goto(p, "q_success", loc[p])
            [] queryTransaction(requery) = "FAILED" ->
                 Goto(p, "q_refund", loc[p])
            [] OTHER -> EndRun(p)
    /\ LedgerUnchanged /\ EnvUnchanged

getAirtimeStatus_markSuccess(p) ==
    /\ p \in QueryProcs /\ pc[p] = "q_success"
    /\ EndRun(p)
    /\ EnvUnchanged
    /\ (LedgerUnchanged \/ MarkSuccessById)

getAirtimeStatus_refund(p) ==
    /\ p \in QueryProcs /\ pc[p] = "q_refund"
    /\ EndRun(p)
    /\ EnvUnchanged
    /\ (LedgerUnchanged \/ MarkFailedAndRefund(loc[p].amount))

(***************************************************************************)
(* A second purchase request of the same user, running at the same time.   *)
(* Its Transaction is another row, which is not tracked here; what it      *)
(* shares with the tracked purchase is the Wallet row.                     *)
(***************************************************************************)
RivalProcs == {<<"buy", 2>>}
RivalPrices == {200, 400}

\* inside $transaction: wallet.findUnique and the balance check
rivalPurchase_txread(p) ==
    /\ p \in RivalProcs /\ pc[p] = "idle"
    /\ \E price \in RivalPrices :
          IF insufficientBalance(wallet, price)
          THEN Goto(p, "done", [NoLoc EXCEPT !.resp = "402"])
          ELSE Goto(p, "r_txwrite", [NoLoc EXCEPT !.amount = price])
    /\ LedgerUnchanged /\ EnvUnchanged

\* inside $transaction: transaction.create (the other row), wallet.update
\* ({ balance: { decrement }, totalSpent: { increment } }), commit
rivalPurchase_txwrite(p) ==
    /\ p \in RivalProcs /\ pc[p] = "r_txwrite"
    /\ EnvUnchanged
    /\ Goto(p, "done", [NoLoc EXCEPT !.resp = "debited"])
    /\ \/ LedgerUnchanged
       \/ /\ wallet' = [balance |-> wallet.balance - loc[p].amount,
                        totalSpent |-> wallet.totalSpent + loc[p].amount]
          /\ UNCHANGED <<txn, hist>>

(***************************************************************************)
(* NelloByte status job: re-queries service Transactions that are PENDING  *)
(* or FAILED and corrects them from the provider's answer.                 *)
(***************************************************************************)
\* findMany({ OR: [..., { status: PENDING }, { status: FAILED }],
\*            type: { in: [service types] }, createdAt: last 3 days })
startNelloByteStatusJob_select(p) ==
    /\ p \in SweepProcs /\ NextIdle(p, SweepProcs)
    /\ IF txn.type \in Verticals /\ txn.status \in {"PENDING", "FAILED"}
       THEN Goto(p, "n_query", [NoLoc EXCEPT !.amount = txn.amount,
                                            !.outcome = txn.status])
       ELSE EndRun(p)
    /\ LedgerUnchanged /\ EnvUnchanged

\* axios.get(APIQueryV1.asp, { RequestID: txn.reference }). Nellobyte knows
\* the orders placed with it; the request id of an order placed with VTPass
\* is unknown to it.
startNelloByteStatusJob_query(p) ==
    /\ p \in SweepProcs /\ pc[p] = "n_query"
    /\ \/ EndRun(p)                                \* throws: logged
       \/ LET order == IF txn.type \in PROVIDERS THEN upstream.status
                                                 ELSE "notfound"
          IN CASE legacyQuery(order) = "200" -> Goto(p, "n_success", loc[p])
               [] legacyQuery(order) \in
                     {"ORDER_CANCELLED", "ORDER_FAILED", "MISSING_ORDERID"} ->
                    Goto(p, "n_failed", loc[p])
               [] OTHER -> EndRun(p)
    /\ LedgerUnchanged /\ EnvUnchanged

\* $transaction([transaction.update({ status: SUCCESS }), and, if the
\* snapshot was FAILED, wallet.update({ balance: { decrement: txn.amount },
\* totalSpent: { increment } })]) - the re-debit has no balance check
startNelloByteStatusJob_markSuccess(p) ==
    /\ p \in SweepProcs /\ pc[p] = "n_success"
    /\ EndRun(p)
    /\ EnvUnchanged
    /\ \/ LedgerUnchanged
       \/ /\ txn' = [txn EXCEPT !.status = "SUCCESS", !.provRef = TRUE]
          /\ IF loc[p].outcome = "FAILED"
             THEN /\ wallet' = [balance |-> wallet.balance - loc[p].amount,
                                totalSpent |-> wallet.totalSpent + loc[p].amount]
                  /\ hist' = [hist EXCEPT !.debits = @ + 1]
             ELSE UNCHANGED <<wallet, hist>>

\* snapshot not FAILED / REVERSED: $transaction([update FAILED, refund]);
\* otherwise only providerStatus is written
startNelloByteStatusJob_markFailed(p) ==
    /\ p \in SweepProcs /\ pc[p] = "n_failed"
    /\ EndRun(p)
    /\ EnvUnchanged
    /\ \/ LedgerUnchanged
       \/ /\ loc[p].outcome \notin {"FAILED", "REVERSED"}
          /\ MarkFailedAndRefund(loc[p].amount)

(***************************************************************************)
(* Webhook ingestion: transfers into a dedicated (virtual) account.  No    *)
(* Transaction row exists beforehand; the user is found through KycData    *)
(* and the Transaction is created as SUCCESS together with the credit.     *)
(***************************************************************************)
\* an operator that credits whatever account reference the event names
kycFound_anyAccount == TRUE

\* kycData.findFirst / findUnique returned a row
kycFound == kyc

\* the shapes in which a gateway names the dedicated account in an event:
\* Flutterwave by the tx_ref given when the account was created
\* ("VA-REG-...", the same for every transfer) or by orderRef, Monnify by
\* product.type RESERVED_ACCOUNT
accountShapes(g) == IF g = "FLW" THEN {"VA-REG", "orderRef"}
                                 ELSE {"RESERVED_ACCOUNT"}

\* the `reference` under which the handler records a transfer: Flutterwave
\* CASE B keeps the event's tx_ref, CASE C uses `VA-IN-${flwId}`, Monnify
\* `VA-MNFY-${flwId}`
internalReference(g, shape, flwId) ==
    CASE g = "FLW" /\ shape = "VA-REG" -> <<"VA-REG", 0>>
      [] g = "FLW" -> <<"VA-IN", flwId>>
      [] OTHER -> <<"VA-MNFY", flwId>>

\* the customer makes one more transfer into the dedicated account
CustomerTransfersAgain ==
    /\ va.transfers < NumTransfers
    /\ va' = [va EXCEPT !.transfers = @ + 1]
    /\ UNCHANGED <<wallet, txn, gateway, kyc, upstream, stale, abandoned, outage, call, io, run, auth, pc, loc, hist>>

\* a signed, well-formed event for one of the transfers into the dedicated
\* account arrives, carrying the gateway's id of that transfer; its payload
\* states an amount, which for an honest sender is the amount paid
handleWebhook_ackVA(p) ==
    /\ gateway \in {"FLW", "MONNIFY"}
    /\ p \in WebhookProcs /\ NextIdle(p, WebhookProcs)
    /\ \E amountPaid \in GrossSet \cup {upstream.paid},
          flwId \in 1..va.transfers, shape \in accountShapes(gateway) :
          Goto(p, "verify", [NoLoc EXCEPT !.resp = "200", !.vertical = "va",
                                          !.gross = amountPaid,
                                          !.flwId = flwId, !.ref = shape])
    /\ LedgerUnchanged /\ EnvUnchanged

\* Flutterwave CASE B / C: kycData lookup, getWalletCreditAmount,
\* `if (!userId || walletCreditAmount <= 0) return`
handleFlutterwaveWebhook_associateVA(p) ==
    /\ gateway = "FLW" /\ p \in WebhookProcs /\ pc[p] = "associate"
    /\ loc[p].vertical = "va"
    /\ IF ~kycFound \/ getWalletCreditAmount(loc[p].gross) <= 0
       THEN Reject(p, "unassociated")
       ELSE Goto(p, "create", loc[p])
    /\ LedgerUnchanged /\ EnvUnchanged

\* Monnify RESERVED_ACCOUNT: kycData.findUnique({ accountReference })
handleMonnifyWebhook_associateVA(p) ==
    /\ gateway = "MONNIFY" /\ p \in WebhookProcs /\ pc[p] = "associate"
    /\ loc[p].vertical = "va"
    /\ IF ~kycFound THEN Reject(p, "unassociated")
                    ELSE Goto(p, "create", loc[p])
    /\ LedgerUnchanged /\ EnvUnchanged

\* $transaction: transaction.create({ status: SUCCESS, amount: credit, fee })
\* - P2002 on a duplicate is logged as suppressed - then the wallet credit
handleWebhook_createVA(p) ==
    /\ p \in WebhookProcs /\ pc[p] = "create"
    /\ Finish(p)
    /\ UNCHANGED <<gateway, kyc, upstream, stale, abandoned, outage, call, io, run, auth>>
    /\ \/ LedgerUnchanged /\ UNCHANGED va
       \/ LET credit == getWalletCreditAmount(loc[p].gross)
              row == [reference |->
                         internalReference(gateway, loc[p].ref, loc[p].flwId),
                      providerReference |-> loc[p].flwId]
          IN IF \E r \in va.rows :
                   \/ r.reference = row.reference
                   \/ r.providerReference = row.providerReference
             THEN Suppressed /\ UNCHANGED va
             ELSE /\ txn' = [status |-> "SUCCESS", amount |-> credit,
                             fee |-> platformFee(loc[p].gross, credit),
                             type |-> "WALLET_FUNDING", provRef |-> TRUE]
                  /\ va' = [va EXCEPT !.rows = @ \cup {row}]
                  /\ CreditAndNotify(credit)

(***************************************************************************)
(* Pricing of catalog items: data plans, cable packages, exam PINs.        *)
(***************************************************************************)
CatalogPriced == {"DATA", "CABLE_TV", "EDUCATION"}
\* the `amount` field of the request body; 0 stands for a request without it
ClientAmounts == {0, 100}

\* data: selectedPlan.SELLING_PRICE; cable: `amount ? Number(amount) :
\* Number(selectedPackage.variation_amount)`; education: Number(amount)
amountToDeduct(vertical, catalogPrice, amount) ==
    CASE vertical = "CABLE_TV" -> IF amount # 0 THEN amount ELSE catalogPrice
      [] vertical = "EDUCATION" -> amount
      [] OTHER -> catalogPrice

\* schema validation, catalog fetch, and the amount the handler will debit;
\* the education schema requires `amount`
purchase_price(p) ==
    /\ p \in BuyerProcs /\ pc[p] = "idle"
    /\ \E v \in CatalogPriced, catalogPrice \in Prices, amount \in ClientAmounts :
          /\ v = "EDUCATION" => amount # 0
          /\ Goto(p, "b_txread",
                  [NoLoc EXCEPT !.vertical = v,
                                !.amount = amountToDeduct(v, catalogPrice, amount)])
    /\ LedgerUnchanged /\ EnvUnchanged

(***************************************************************************)
(* Sessions: refresh-token rotation and logout.  Every instance presents   *)
(* the same refresh token.                                                 *)
(***************************************************************************)
NumRefreshes == 3       \* refresh requests presenting the token in flight
RefreshProcs == {"rf"} \X (1..NumRefreshes)

\* expiresAt of the presented token falls behind the clock
TokenExpires ==
    /\ ~auth.expired
    /\ auth' = [auth EXCEPT !.expired = TRUE]
    /\ UNCHANGED <<wallet, txn, gateway, kyc, upstream, stale, abandoned, outage, call, io, run, va, pc, loc, hist>>

\* refreshToken.findUnique; 401 when the row read is revoked or expired
refresh_find(p) ==
    /\ NextIdle(p, RefreshProcs)
    /\ IF auth.revoked \/ auth.expired
          THEN Goto(p, "done", [NoLoc EXCEPT !.resp = "401"])
          ELSE Goto(p, "r_revoke", NoLoc)
    /\ LedgerUnchanged /\ EnvUnchanged

\* refreshToken.update({ where: { id }, data: { revoked: true } })
refresh_revoke(p) ==
    /\ pc[p] = "r_revoke"
    /\ auth' = [auth EXCEPT !.revoked = TRUE]
    /\ Goto(p, "r_issue", NoLoc)
    /\ UNCHANGED <<wallet, txn, gateway, kyc, upstream, stale, abandoned, outage, call, io, run, va, hist>>

\* jwt.sign, refreshToken.create of a new random token, 200 with the new
\* pair; a database error is caught and answered with 500
refresh_issue(p) ==
    /\ pc[p] = "r_issue"
    /\ \/ /\ auth' = [auth EXCEPT !.issued = @ + 1]
          /\ Goto(p, "done", [NoLoc EXCEPT !.resp = "200"])
       \/ /\ auth' = auth
          /\ Goto(p, "done", [NoLoc EXCEPT !.resp = "500"])
    /\ UNCHANGED <<wallet, txn, gateway, kyc, upstream, stale, abandoned, outage, call, io, run, va, hist>>

\* refreshToken.updateMany({ where: { token }, data: { revoked: true } })
logout ==
    /\ ~auth.revoked
    /\ auth' = [auth EXCEPT !.revoked = TRUE]
    /\ UNCHANGED <<wallet, txn, gateway, kyc, upstream, stale, abandoned, outage, call, io, run, va, pc, loc, hist>>

(***************************************************************************)
(* Sessions: login with the brute-force lockout.  auth.failures counts the *)
(* failed attempts since the last successful login; auth.window is         *)
(* "within" from the fifth of them until fifteen minutes later.            *)
(***************************************************************************)
NumLogins == 2          \* login requests for the account in flight
MaxFailures == 6        \* failed attempts (and failedLoginAttempts) explored
LockoutThreshold == 5   \* if (newAttempts >= 5)
LoginProcs == {"lg"} \X (1..NumLogins)

\* fifteen minutes pass: a lockoutUntil that was ahead of the clock is now
\* behind it, and so is the fifth failure's quarter of an hour
FifteenMinutesPass ==
    /\ auth.window = "within" \/ auth.lockoutUntil = "future"
    /\ auth' = [auth EXCEPT
                  !.window = IF @ = "within" THEN "past" ELSE @,
                  !.lockoutUntil = IF @ = "future" THEN "past" ELSE @]
    /\ UNCHANGED <<wallet, txn, gateway, kyc, upstream, stale, abandoned, outage, call, io, run, va, pc, loc, hist>>

\* user.findUnique; 423 while the lockoutUntil read is ahead of the clock;
\* otherwise bcrypt.compare of the submitted password (right or wrong),
\* with the User row kept as read
login_find(p) ==
    /\ NextIdle(p, LoginProcs)
    /\ IF auth.lockoutUntil = "future"
          THEN Goto(p, "idle", [NoLoc EXCEPT !.resp = "423"])
          ELSE \E password \in {"right", "wrong"} :
                 /\ password = "wrong" =>
                       /\ auth.failures < MaxFailures
                       /\ auth.failedLoginAttempts < MaxFailures
                 /\ Goto(p, "l_update",
                         [NoLoc EXCEPT
                            !.outcome = password,
                            !.attempts = auth.failedLoginAttempts,
                            !.late = (auth.failures >= LockoutThreshold
                                      /\ auth.window = "within")])
    /\ LedgerUnchanged /\ EnvUnchanged

\* wrong password: user.update({ failedLoginAttempts: newAttempts,
\* lockoutUntil }) with newAttempts counted from the row as read, 401;
\* right password: user.update({ failedLoginAttempts: 0, lockoutUntil:
\* null }), tokens, 200
login_update(p) ==
    /\ pc[p] = "l_update"
    /\ IF loc[p].outcome = "wrong"
          THEN LET newAttempts == loc[p].attempts + 1
                   failures == auth.failures + 1
               IN /\ auth' = [auth EXCEPT
                        !.failedLoginAttempts = newAttempts,
                        !.lockoutUntil =
                            IF newAttempts >= LockoutThreshold
                               THEN "future" ELSE "null",
                        !.failures = failures,
                        !.window = IF failures = LockoutThreshold
                                      THEN "within" ELSE @]
                  /\ Goto(p, "idle", [NoLoc EXCEPT !.resp = "401"])
          ELSE /\ auth' = [auth EXCEPT
                        !.failedLoginAttempts = 0,
                        !.lockoutUntil = "null",
                        !.failures = 0,
                        !.window = "none"]
               /\ Goto(p, "idle", [NoLoc EXCEPT !.resp = "200"])
    /\ UNCHANGED <<wallet, txn, gateway, kyc, upstream, stale, abandoned, outage, call, io, run, va, hist>>

(***************************************************************************)
(* The batch loop of the sync jobs: findMany selects at most `take` rows,  *)
(* and the loop body reconciles each row inside its own try/catch.         *)
(***************************************************************************)
MaxBatch == 3                 \* stands for take: 20 (unified) / take: 15 (Paystack)
BatchJobs == {"unified", "paystack"}
BatchTypes(job) == IF job = "unified" THEN {"WALLET_FUNDING", "AIRTIME"}
                   ELSE {"WALLET_FUNDING"}
Batches(job) == UNION {[1..n -> BatchTypes(job)] : n \in 0..MaxBatch}

\* no run of a job is under way
NoRun == [job |-> "none", batch |-> <<>>, i |-> 0, reconciled |-> {},
          errors |-> {}, state |-> "idle"]

\* cron fires: prisma.transaction.findMany({ where, take }); a throw lands in
\* the outer catch and ends the run before the loop starts
syncJob_findMany(job) ==
    /\ run.state \in {"idle", "done"}
    /\ \/ run' = [NoRun EXCEPT !.job = job, !.state = "done"]
       \/ \E b \in Batches(job) :
             run' = [NoRun EXCEPT !.job = job, !.batch = b, !.i = 1,
                                  !.state = "loop"]
    /\ UNCHANGED <<wallet, txn, gateway, kyc, upstream, stale, abandoned, outage, call, io, va, auth, pc, loc, hist>>

\* catch (error) around the whole run: the error is logged and the run ends
syncJob_outerCatch(r) ==
    [r EXCEPT !.errors = @ \cup {r.i}, !.state = "done"]

\* catch (err) inside the for loop: the error is logged and the loop moves on
syncJob_catch(r) ==
    [r EXCEPT !.errors = @ \cup {r.i}, !.i = @ + 1]

\* one pass of the loop body: the row is reconciled, or anything in the body
\* (the provider call, the dispatch, a database write) throws
syncJob_item ==
    /\ run.state = "loop" /\ run.i <= Len(run.batch)
    /\ \/ run' = [run EXCEPT !.reconciled = @ \cup {run.i}, !.i = @ + 1]
       \/ run' = syncJob_catch(run)
    /\ UNCHANGED <<wallet, txn, gateway, kyc, upstream, stale, abandoned, outage, call, io, va, auth, pc, loc, hist>>

\* the for loop has run out of rows
syncJob_end ==
    /\ run.state = "loop" /\ run.i > Len(run.batch)
    /\ run' = [run EXCEPT !.state = "done"]
    /\ UNCHANGED <<wallet, txn, gateway, kyc, upstream, stale, abandoned, outage, call, io, va, auth, pc, loc, hist>>

(***************************************************************************)
(* Status read with its response (getDataStatus): the handler answers with *)
(* the Transaction as it knows it after at most one inline query.          *)
(***************************************************************************)
NumReads == 2
StatusProcs == {"ds"} \X (1..NumReads)

\* res.status(200).json({ status: "OK", data: txn })
getDataStatus_reply(l, status) ==
    [NoLoc EXCEPT !.resp = "200", !.outcome = status,
                  !.attempts = l.attempts, !.sig = l.sig]

\* an inline attempt whose error reaches the handler's outer catch
getDataStatus_catch_failsRead(l) ==
    [NoLoc EXCEPT !.resp = "500", !.attempts = l.attempts, !.sig = "logged"]

\* catch (queryError): the error is logged and the handler goes on to answer
\* with the Transaction as it read it
getDataStatus_catch(l) ==
    getDataStatus_reply([l EXCEPT !.sig = "logged"], "PENDING")

\* prisma.transaction.findUnique({ reference }); a throw is answered 500, a
\* missing row 404; the provider is asked only
\* if (txn.status === PENDING && txn.providerReference)
getDataStatus_find(p) ==
    /\ p \in StatusProcs /\ NextIdle(p, StatusProcs)
    /\ \/ Goto(p, "done", [NoLoc EXCEPT !.resp = "500"])
       \/ IF txn.status = "NONE"
          THEN Goto(p, "done", [NoLoc EXCEPT !.resp = "404"])
          ELSE IF txn.status = "PENDING" /\ txn.provRef
          THEN Goto(p, "d_query", [NoLoc EXCEPT !.amount = txn.amount])
          ELSE Goto(p, "done", getDataStatus_reply(NoLoc, txn.status))
    /\ LedgerUnchanged /\ EnvUnchanged

\* await vtpassProvider.queryTransaction(txn.reference).catch(() => null)
getDataStatus_query(p) ==
    /\ p \in StatusProcs /\ pc[p] = "d_query"
    /\ LET l == [loc[p] EXCEPT !.attempts = @ + 1]
       IN  \/ Goto(p, "done", getDataStatus_reply(l, "PENDING"))     \* null
           \/ CASE queryTransaction(requery) = "SUCCESS" -> Goto(p, "d_success", l)
                [] queryTransaction(requery) = "FAILED" -> Goto(p, "d_refund", l)
                [] OTHER -> Goto(p, "done", getDataStatus_reply(l, "PENDING"))
    /\ LedgerUnchanged /\ EnvUnchanged

\* txn = await prisma.transaction.update({ status: SUCCESS })
getDataStatus_markSuccess(p) ==
    /\ p \in StatusProcs /\ pc[p] = "d_success"
    /\ \/ MarkSuccessById
          /\ Goto(p, "done", getDataStatus_reply(loc[p], "SUCCESS"))
       \/ LedgerUnchanged /\ Goto(p, "done", getDataStatus_catch(loc[p]))
    /\ EnvUnchanged

\* $transaction([transaction.update({ status: FAILED }), wallet.update(...)])
getDataStatus_refund(p) ==
    /\ p \in StatusProcs /\ pc[p] = "d_refund"
    /\ \/ MarkFailedAndRefund(loc[p].amount)
          /\ Goto(p, "done", getDataStatus_reply(loc[p], "FAILED"))
       \/ LedgerUnchanged /\ Goto(p, "done", getDataStatus_catch(loc[p]))
    /\ EnvUnchanged

(***************************************************************************)
(* Outbound gateway calls: Flutterwave's requestWithRetry (axios),         *)
(* Monnify's fetchWithRetry (fetch) and the verifyTransaction that calls   *)
(* axios directly.                                                         *)
(***************************************************************************)
RequestRetries == 5           \* requestWithRetry(config, retries = 5, ...)
FetchRetries == 3             \* fetchWithRetry(url, options, retries = 3, ...)
InitialBackoff == 1000        \* backoff = 1000
CallKinds == {"requestWithRetry", "fetchWithRetry", "axios"}
CallOutcomes == {"200", "404", "5xx", "network"}

\* no call is under way
NoCall == [fn |-> "none", retries |-> 0, backoff |-> 0, requests |-> 0,
           errors |-> <<>>, delays |-> <<>>, state |-> "idle",
           result |-> "none"]

\* the retries a call starts with; the verifyTransaction of
\* routes/paymentRoutes.js awaits axios(config) itself
startRetries(fn) ==
    CASE fn = "requestWithRetry" -> RequestRetries
      [] fn = "fetchWithRetry" -> FetchRetries
      [] OTHER -> 0

\* a caller starts a gateway call
gatewayCall_start(fn) ==
    /\ call.state \in {"idle", "returned", "threw"}
    /\ call' = [NoCall EXCEPT !.fn = fn, !.retries = startRetries(fn),
                              !.backoff = InitialBackoff, !.state = "trying"]
    /\ UNCHANGED <<wallet, txn, gateway, kyc, upstream, stale, abandoned, outage, io, run, va, auth, pc, loc, hist>>

\* await new Promise(r => setTimeout(r, backoff)); the recursive call gets
\* retries - 1 and backoff * 2
retryAfterBackoff(c, outcome) ==
    [c EXCEPT !.errors = Append(@, outcome), !.delays = Append(@, c.backoff),
              !.retries = @ - 1, !.backoff = @ * 2]

\* axios rejects on a network error and on every non-2xx status;
\* isRetryable = !error.response || status in 500..599
requestWithRetry(c, outcome) ==
    IF outcome = "200"
    THEN [c EXCEPT !.state = "returned", !.result = "200"]
    ELSE IF c.retries > 0 /\ outcome \in {"5xx", "network"}
    THEN retryAfterBackoff(c, outcome)
    ELSE [c EXCEPT !.errors = Append(@, outcome), !.state = "threw",
                   !.result = outcome]

\* fetch rejects on a network error only: a 5xx answer is retried while
\* retries are left and is then returned as the response, as any other
\* answer is
fetchWithRetry(c, outcome) ==
    IF outcome = "network"
    THEN IF c.retries > 0 THEN retryAfterBackoff(c, outcome)
         ELSE [c EXCEPT !.errors = Append(@, outcome), !.state = "threw",
                        !.result = outcome]
    ELSE IF outcome = "5xx" /\ c.retries > 0
    THEN retryAfterBackoff(c, outcome)
    ELSE [c EXCEPT !.errors = IF outcome = "200" THEN @ ELSE Append(@, outcome),
                   !.state = "returned", !.result = outcome]

\* one request of the call is answered
gatewayCall_attempt ==
    /\ call.state = "trying"
    /\ \E outcome \in CallOutcomes :
          LET c == [call EXCEPT !.requests = @ + 1]
          IN  call' = IF call.fn = "fetchWithRetry"
                      THEN fetchWithRetry(c, outcome)
                      ELSE requestWithRetry(c, outcome)
    /\ UNCHANGED <<wallet, txn, gateway, kyc, upstream, stale, abandoned, outage, io, run, va, auth, pc, loc, hist>>

(***************************************************************************)
(* Funding: a PENDING Transaction created by initGatewayFunding, finalised *)
(* by webhook deliveries and scheduler runs in any interleaving.           *)
(***************************************************************************)
FundingRow(a) == [status |-> "PENDING", amount |-> a, fee |-> 0,
                 type |-> "WALLET_FUNDING", provRef |-> FALSE]

InitFund ==
    /\ wallet = [balance |-> 0, totalSpent |-> 0]
    /\ \E a \in FundAmounts : txn = FundingRow(a)
    /\ gateway \in Gateways
    /\ kyc = FALSE
    /\ upstream = [status |-> "notfound", paid |-> 0]
    /\ stale = FALSE
    /\ abandoned = FALSE
    /\ outage = FALSE
    /\ call = NoCall
    /\ io = TRUE
    /\ run = NoRun
    /\ va = NoVA
    /\ auth = NoAuth
    /\ pc = [p \in FundProcs |-> "idle"]
    /\ loc = [p \in FundProcs |-> NoLoc]
    /\ hist = NoHist

GatewayStep == CustomerOpensCheckout \/ CustomerPays \/ PaymentFails

WebhookStep(p) ==
    \/ handleFlutterwaveWebhook_ack(p)
    \/ handleFlutterwaveWebhook_verify(p)
    \/ handleFlutterwaveWebhook_associate(p)
    \/ handleFlutterwaveWebhook_commit(p)
    \/ handleMonnifyWebhook_ack(p)
    \/ handleMonnifyWebhook_verify(p)
    \/ handleMonnifyWebhook_associate(p)
    \/ handleMonnifyWebhook_commit(p)
    \/ handlePaystackWebhook_ack(p)
    \/ handleChargeSuccess_verify(p)
    \/ handleChargeSuccess_txread(p)
    \/ handleChargeSuccess_txwrite(p)

SweepStep(p) ==
    \/ startTransactionSync_select(p)
    \/ reconcileFunding_verify(p)
    \/ reconcileFunding_txread(p)
    \/ reconcileFunding_txwrite(p)
    \/ reconcileFunding_markFailed(p)
    \/ startMonnifyTransactionSync_select(p)
    \/ startMonnifyTransactionSync_verify(p)
    \/ startMonnifyTransactionSync_txread(p)
    \/ startMonnifyTransactionSync_txwrite(p)
    \/ startMonnifyTransactionSync_markFailed(p)
    \/ startPaystackTransactionSync_select(p)
    \/ startPaystackTransactionSync_verify(p)
    \/ startPaystackTransactionSync_txread(p)
    \/ startPaystackTransactionSync_txwrite(p)
    \/ startPaystackTransactionSync_markFailed(p)

NextFund ==
    \/ GatewayStep
    \/ StalenessWindowPasses
    \/ \E p \in WebhookProcs : WebhookStep(p)
    \/ \E p \in SweepProcs : SweepStep(p)

SpecFund == InitFund /\ [][NextFund]_vars

(***************************************************************************)
(* Replay: the same signed webhook is delivered again after the previous   *)
(* delivery has been handled; no scheduler run touches the Transaction.    *)
(***************************************************************************)
AfterPrevious(p) == \A q \in WebhookProcs : q[2] < p[2] => pc[q] = "done"

ReplayStep(p) ==
    \/ AfterPrevious(p) /\ handleFlutterwaveWebhook_ack(p)
    \/ AfterPrevious(p) /\ handleFlutterwaveWebhook_verify(p)
    \/ AfterPrevious(p) /\ handleFlutterwaveWebhook_associate(p)
    \/ AfterPrevious(p) /\ handleFlutterwaveWebhook_commit(p)
    \/ AfterPrevious(p) /\ handleMonnifyWebhook_ack(p)
    \/ AfterPrevious(p) /\ handleMonnifyWebhook_verify(p)
    \/ AfterPrevious(p) /\ handleMonnifyWebhook_associate(p)
    \/ AfterPrevious(p) /\ handleMonnifyWebhook_commit(p)
    \/ AfterPrevious(p) /\ handlePaystackWebhook_ack(p)
    \/ AfterPrevious(p) /\ handleChargeSuccess_verify(p)
    \/ AfterPrevious(p) /\ handleChargeSuccess_txread(p)
    \/ AfterPrevious(p) /\ handleChargeSuccess_txwrite(p)

NextReplay ==
    \/ GatewayStep
    \/ \E p \in WebhookProcs : ReplayStep(p)

SpecReplay == InitFund /\ [][NextReplay]_vars

(***************************************************************************)
(* Recovery: the webhook was lost, the Transaction is PENDING past the     *)
(* staleness window and the gateway holds a definitive outcome.  The       *)
(* scheduler jobs run, and webhook deliveries may still arrive.            *)
(***************************************************************************)
InitRecover ==
    /\ wallet = [balance |-> 0, totalSpent |-> 0]
    /\ \E a \in FundAmounts : txn = FundingRow(a)
    /\ gateway \in Gateways
    /\ kyc = FALSE
    /\ \/ \E g \in GrossSet : upstream = [status |-> "successful", paid |-> g]
       \/ upstream = [status |-> "failed", paid |-> 0]
    /\ stale = TRUE
    /\ abandoned = FALSE
    /\ outage = FALSE
    /\ call = NoCall
    /\ io = TRUE
    /\ run = NoRun
    /\ va = NoVA
    /\ auth = NoAuth
    /\ pc = [p \in FundProcs |-> "idle"]
    /\ loc = [p \in FundProcs |-> NoLoc]
    /\ hist = NoHist

NextRecover ==
    \/ \E p \in WebhookProcs : WebhookStep(p)
    \/ \E p \in SweepProcs : SweepStep(p)

SpecRecover == InitRecover /\ [][NextRecover]_vars

(***************************************************************************)
(* Purchase: one purchase request of one user, the provider, the VTPass    *)
(* webhook, the unified sync job and the client's status requests.         *)
(***************************************************************************)
PurchaseProcs == BuyerProcs \cup VendWebhookProcs \cup SweepProcs \cup QueryProcs

InitPurchase ==
    /\ \E b \in OpeningBalances : wallet = [balance |-> b, totalSpent |-> 0]
    /\ txn = NoRow
    /\ gateway = "NONE"
    /\ kyc = FALSE
    /\ upstream = [status |-> "notfound", paid |-> 0]
    /\ stale = FALSE
    /\ abandoned = FALSE
    /\ outage = FALSE
    /\ call = NoCall
    /\ io = TRUE
    /\ run = NoRun
    /\ va = NoVA
    /\ auth = NoAuth
    /\ pc = [p \in PurchaseProcs |-> "idle"]
    /\ loc = [p \in PurchaseProcs |-> NoLoc]
    /\ hist = NoHist

BuyerRuns(p) ==
    \/ purchase_validate(p)
    \/ purchase_txread(p)
    \/ purchase_txwrite(p)
    \/ purchase_callProvider(p)
    \/ purchase_update(p)
    \/ purchase_catch(p)

BuyerStep(p) == BuyerRuns(p) \/ HandlerCrashes(p)

VendWebhookStep(p) ==
    \/ handleVTPassWebhook_find(p)
    \/ processTransactionUpdate_write(p)

ServiceSweepStep(p) ==
    \/ startTransactionSync_select(p)
    \/ reconcileVTPassService_query(p)
    \/ reconcileVTPassService_markSuccess(p)
    \/ reconcileVTPassService_refund(p)
    \/ reconcileLegacyService_query(p)
    \/ reconcileLegacyService_markSuccess(p)
    \/ reconcileLegacyService_refund(p)

QueryStep(p) ==
    \/ getAirtimeStatus_find(p)
    \/ getAirtimeStatus_query(p)
    \/ getAirtimeStatus_markSuccess(p)
    \/ getAirtimeStatus_refund(p)

ProviderStep == ProviderDelivers \/ ProviderReverses

NextPurchase ==
    \/ \E p \in BuyerProcs : BuyerStep(p)
    \/ ProviderStep
    \/ StalenessWindowPasses
    \/ \E p \in VendWebhookProcs : VendWebhookStep(p)
    \/ \E p \in SweepProcs : ServiceSweepStep(p)
    \/ \E p \in QueryProcs : QueryStep(p)

SpecPurchase == InitPurchase /\ [][NextPurchase]_vars

(***************************************************************************)
(* Purchase with the scheduling the deployment provides: the request       *)
(* handler runs on unless the process dies, the provider settles every     *)
(* order it is processing, the staleness window passes, cron keeps         *)
(* starting the unified sync job, the provider's query API answers         *)
(* repeatedly and the database commits repeatedly.                         *)
(***************************************************************************)
\* a run of the job gets an answer from the provider's query API
SweepIsAnswered(p) ==
    /\ reconcileVTPassService_query(p) \/ reconcileLegacyService_query(p)
    /\ pc'[p] # "idle"

\* a run of the job commits its write
SweepCommits(p) ==
    /\ \/ reconcileVTPassService_markSuccess(p)
       \/ reconcileVTPassService_refund(p)
       \/ reconcileLegacyService_markSuccess(p)
       \/ reconcileLegacyService_refund(p)
    /\ <<txn, wallet>>' # <<txn, wallet>>

FairPurchase ==
    /\ \A p \in BuyerProcs : WF_vars(BuyerRuns(p))
    /\ WF_vars(ProviderStep)
    /\ WF_vars(StalenessWindowPasses)
    /\ \A p \in SweepProcs :
          /\ WF_vars(ServiceSweepStep(p))
          /\ SF_vars(SweepIsAnswered(p))
          /\ SF_vars(SweepCommits(p))

SpecPurchaseFair == InitPurchase /\ [][NextPurchase]_vars /\ FairPurchase

(***************************************************************************)
(* Wallet: the tracked purchase, a second purchase of the same user, the   *)
(* provider and the NelloByte status job, all on one Wallet row.           *)
(***************************************************************************)
InitWallet ==
    /\ \E b \in OpeningBalances : wallet = [balance |-> b, totalSpent |-> 0]
    /\ txn = NoRow
    /\ gateway = "NONE"
    /\ kyc = FALSE
    /\ upstream = [status |-> "notfound", paid |-> 0]
    /\ stale = FALSE
    /\ abandoned = FALSE
    /\ outage = FALSE
    /\ call = NoCall
    /\ io = TRUE
    /\ run = NoRun
    /\ va = NoVA
    /\ auth = NoAuth
    /\ pc = [p \in BuyerProcs \cup RivalProcs \cup SweepProcs |-> "idle"]
    /\ loc = [p \in BuyerProcs \cup RivalProcs \cup SweepProcs |-> NoLoc]
    /\ hist = NoHist

NextWallet ==
    \/ \E p \in BuyerProcs : BuyerStep(p)
    \/ \E p \in RivalProcs : rivalPurchase_txread(p)
    \/ \E p \in RivalProcs : rivalPurchase_txwrite(p)
    \/ ProviderStep
    \/ \E p \in SweepProcs : startNelloByteStatusJob_select(p)
    \/ \E p \in SweepProcs : startNelloByteStatusJob_query(p)
    \/ \E p \in SweepProcs : startNelloByteStatusJob_markSuccess(p)
    \/ \E p \in SweepProcs : startNelloByteStatusJob_markFailed(p)

SpecWallet == InitWallet /\ [][NextWallet]_vars

(***************************************************************************)
(* Fulfilment webhook: a purchase, the provider, and transaction-update    *)
(* POSTs, sent by VTPass or by anyone else who knows the URL.              *)
(***************************************************************************)
NextVendWebhook ==
    \/ \E p \in BuyerProcs : BuyerStep(p)
    \/ ProviderStep
    \/ \E p \in VendWebhookProcs : handleVTPassWebhook_find(p)
    \/ \E p \in VendWebhookProcs : handleVTPassWebhook_unsigned(p)
    \/ \E p \in VendWebhookProcs : processTransactionUpdate_write(p)

SpecVendWebhook == InitPurchase /\ [][NextVendWebhook]_vars

(***************************************************************************)
(* Association: verified events arrive for a reference that no Transaction *)
(* carries, or for a dedicated account with or without a KycData row.      *)
(***************************************************************************)
InitAssociate ==
    /\ wallet = [balance |-> 0, totalSpent |-> 0]
    /\ txn = NoRow
    /\ gateway \in {"FLW", "MONNIFY"}
    /\ kyc \in BOOLEAN
    /\ upstream = [status |-> "notfound", paid |-> 0]
    /\ stale = FALSE
    /\ abandoned = FALSE
    /\ outage = FALSE
    /\ call = NoCall
    /\ io = TRUE
    /\ run = NoRun
    /\ va = NoVA
    /\ auth = NoAuth
    /\ pc = [p \in FundProcs |-> "idle"]
    /\ loc = [p \in FundProcs |-> NoLoc]
    /\ hist = NoHist

\* txn is the row created for the dedicated-account transfer; the reference
\* of a gateway event is another one, which no row carries
NextAssociate ==
    \/ CustomerPays
    \/ \E p \in WebhookProcs : handleFlutterwaveWebhook_ack(p)
    \/ \E p \in WebhookProcs : handleFlutterwaveWebhook_verify(p)
    \/ \E p \in WebhookProcs :
          txn = NoRow /\ handleFlutterwaveWebhook_associate(p)
    \/ \E p \in WebhookProcs : handleMonnifyWebhook_ack(p)
    \/ \E p \in WebhookProcs : handleMonnifyWebhook_verify(p)
    \/ \E p \in WebhookProcs :
          txn = NoRow /\ handleMonnifyWebhook_associate(p)
    \/ \E p \in WebhookProcs : handleWebhook_ackVA(p)
    \/ \E p \in WebhookProcs : handleFlutterwaveWebhook_associateVA(p)
    \/ \E p \in WebhookProcs : handleMonnifyWebhook_associateVA(p)
    \/ \E p \in WebhookProcs : handleWebhook_createVA(p)

SpecAssociate == InitAssociate /\ [][NextAssociate]_vars

(***************************************************************************)
(* Fee Policy applied: a transfer of each example amount into a dedicated  *)
(* account is verified and credited through either gateway's handler.      *)
(***************************************************************************)
FeeExamples == {<<2000, 1960>>, <<2540, 2500>>, <<50000, 49000>>,
                <<150000, 148000>>, <<30, 0>>}

InitFee ==
    /\ wallet = [balance |-> 0, totalSpent |-> 0]
    /\ txn = NoRow
    /\ gateway \in {"FLW", "MONNIFY"}
    /\ kyc = TRUE
    /\ \E e \in FeeExamples : upstream = [status |-> "successful", paid |-> e[1]]
    /\ stale = FALSE
    /\ abandoned = FALSE
    /\ outage = FALSE
    /\ call = NoCall
    /\ io = TRUE
    /\ run = NoRun
    /\ va = NoVA
    /\ auth = NoAuth
    /\ pc = [p \in FundProcs |-> "idle"]
    /\ loc = [p \in FundProcs |-> NoLoc]
    /\ hist = NoHist

NextFee ==
    \/ \E p \in WebhookProcs : handleWebhook_ackVA(p)
    \/ \E p \in WebhookProcs : handleFlutterwaveWebhook_verify(p)
    \/ \E p \in WebhookProcs : handleMonnifyWebhook_verify(p)
    \/ \E p \in WebhookProcs : handleFlutterwaveWebhook_associateVA(p)
    \/ \E p \in WebhookProcs : handleMonnifyWebhook_associateVA(p)
    \/ \E p \in WebhookProcs : handleWebhook_createVA(p)

SpecFee == InitFee /\ [][NextFee]_vars

(***************************************************************************)
(* Pricing: one purchase of a catalog item, with or without an `amount`    *)
(* in the request body.                                                    *)
(***************************************************************************)
NextPricing ==
    \/ \E p \in BuyerProcs : purchase_price(p)
    \/ \E p \in BuyerProcs : BuyerStep(p)
    \/ ProviderStep

SpecPricing == InitPurchase /\ [][NextPricing]_vars

(***************************************************************************)
(* Abandonment: a funding Transaction ages while the customer may or may   *)
(* not pay, and the scheduler jobs run; no webhook arrives.                *)
(***************************************************************************)
NextAbandon ==
    \/ GatewayStep
    \/ StalenessWindowPasses
    \/ AbandonmentWindowPasses
    \/ \E p \in SweepProcs : SweepStep(p)

SpecAbandon == InitFund /\ [][NextAbandon]_vars

(***************************************************************************)
(* Refresh: one stored, unrevoked refresh token presented by concurrent    *)
(* refresh requests, while it may expire or be logged out.                 *)
(***************************************************************************)
InitRefresh ==
    /\ wallet = [balance |-> 0, totalSpent |-> 0]
    /\ txn = NoRow
    /\ gateway = "FLW"
    /\ kyc = FALSE
    /\ upstream = [status |-> "notfound", paid |-> 0]
    /\ stale = FALSE
    /\ abandoned = FALSE
    /\ outage = FALSE
    /\ call = NoCall
    /\ io = TRUE
    /\ run = NoRun
    /\ va = NoVA
    /\ auth = NoAuth
    /\ pc = [p \in RefreshProcs |-> "idle"]
    /\ loc = [p \in RefreshProcs |-> NoLoc]
    /\ hist = NoHist

NextRefresh ==
    \/ TokenExpires
    \/ logout
    \/ \E p \in RefreshProcs : refresh_find(p)
    \/ \E p \in RefreshProcs : refresh_revoke(p)
    \/ \E p \in RefreshProcs : refresh_issue(p)

SpecRefresh == InitRefresh /\ [][NextRefresh]_vars

(***************************************************************************)
(* Login: concurrent login requests for one account, with right and wrong  *)
(* passwords, while the clock advances.                                    *)
(***************************************************************************)
InitLogin ==
    /\ wallet = [balance |-> 0, totalSpent |-> 0]
    /\ txn = NoRow
    /\ gateway = "FLW"
    /\ kyc = FALSE
    /\ upstream = [status |-> "notfound", paid |-> 0]
    /\ stale = FALSE
    /\ abandoned = FALSE
    /\ outage = FALSE
    /\ call = NoCall
    /\ io = TRUE
    /\ run = NoRun
    /\ va = NoVA
    /\ auth = NoAuth
    /\ pc = [p \in LoginProcs |-> "idle"]
    /\ loc = [p \in LoginProcs |-> NoLoc]
    /\ hist = NoHist

NextLogin ==
    \/ FifteenMinutesPass
    \/ \E p \in LoginProcs : login_find(p)
    \/ \E p \in LoginProcs : login_update(p)

SpecLogin == InitLogin /\ [][NextLogin]_vars

(***************************************************************************)
(* Transfers: a dedicated account receives several transfers, each with    *)
(* its own id at the gateway; the events for them arrive in any order and  *)
(* any number of times.                                                    *)
(***************************************************************************)
NextTransfers ==
    \/ CustomerTransfersAgain
    \/ NextFee

SpecTransfers == InitFee /\ [][NextTransfers]_vars

(***************************************************************************)
(* Funding under fair scheduling: every webhook delivery is handled to the *)
(* end, the jobs keep running, the gateway's verify API answers the jobs   *)
(* repeatedly and the database commits their writes repeatedly.            *)
(***************************************************************************)
\* a run of job j picks the Transaction up whenever it keeps qualifying
RunSelects(p, j) ==
    /\ CASE j = "unified" -> startTransactionSync_select(p)
         [] j = "monnify" -> startMonnifyTransactionSync_select(p)
         [] OTHER -> startPaystackTransactionSync_select(p)
    /\ pc'[p] # "idle"

\* the gateway's verify API answers the run
RunIsAnswered(p) ==
    /\ SweepStep(p)
    /\ pc[p] \in {"u_verify", "m_verify", "p_verify"}
    /\ pc'[p] # "idle"

FairFund ==
    /\ WF_vars(StalenessWindowPasses)
    /\ \A p \in WebhookProcs : WF_vars(WebhookStep(p))
    /\ \A p \in SweepProcs :
          /\ WF_vars(SweepStep(p))
          /\ \A j \in {"unified", "monnify", "paystack"} : SF_vars(RunSelects(p, j))
          /\ SF_vars(RunIsAnswered(p))
          /\ SF_vars(SweepStep(p) /\ <<txn, wallet>>' # <<txn, wallet>>)

SpecFundFair == InitFund /\ [][NextFund]_vars /\ FairFund

(***************************************************************************)
(* Requery: a purchase, the provider, the unified sync job and the status  *)
(* query while the provider's query API may be in an error condition.      *)
(***************************************************************************)
NextRequery ==
    \/ \E p \in BuyerProcs : BuyerStep(p)
    \/ ProviderStep
    \/ ProviderQueryDegrades
    \/ StalenessWindowPasses
    \/ \E p \in SweepProcs : ServiceSweepStep(p)
    \/ \E p \in QueryProcs : QueryStep(p)

SpecRequery == InitPurchase /\ [][NextRequery]_vars

(***************************************************************************)
(* Batch: runs of the unified and the Paystack sync job over a batch of    *)
(* selected rows, any of which may fail to reconcile.                      *)
(***************************************************************************)
InitBatch ==
    /\ wallet = [balance |-> 0, totalSpent |-> 0]
    /\ txn = NoRow
    /\ gateway = "NONE"
    /\ kyc = FALSE
    /\ upstream = [status |-> "notfound", paid |-> 0]
    /\ stale = FALSE
    /\ abandoned = FALSE
    /\ outage = FALSE
    /\ call = NoCall
    /\ io = TRUE
    /\ run = NoRun
    /\ va = NoVA
    /\ auth = NoAuth
    /\ pc = [p \in {} |-> "idle"]
    /\ loc = [p \in {} |-> NoLoc]
    /\ hist = NoHist

NextBatch ==
    \/ \E job \in BatchJobs : syncJob_findMany(job)
    \/ syncJob_item
    \/ syncJob_end

SpecBatch == InitBatch /\ [][NextBatch]_vars

(***************************************************************************)
(* Status: a purchase, the provider with its query API, and status reads   *)
(* of the purchase's Transaction.                                          *)
(***************************************************************************)
InitStatus ==
    /\ \E b \in OpeningBalances : wallet = [balance |-> b, totalSpent |-> 0]
    /\ txn = NoRow
    /\ gateway = "NONE"
    /\ kyc = FALSE
    /\ upstream = [status |-> "notfound", paid |-> 0]
    /\ stale = FALSE
    /\ abandoned = FALSE
    /\ outage = FALSE
    /\ call = NoCall
    /\ io = TRUE
    /\ run = NoRun
    /\ va = NoVA
    /\ auth = NoAuth
    /\ pc = [p \in BuyerProcs \cup StatusProcs |-> "idle"]
    /\ loc = [p \in BuyerProcs \cup StatusProcs |-> NoLoc]
    /\ hist = NoHist

NextStatus ==
    \/ \E p \in BuyerProcs : BuyerStep(p)
    \/ ProviderStep
    \/ ProviderQueryDegrades
    \/ \E p \in StatusProcs : getDataStatus_find(p)
    \/ \E p \in StatusProcs : getDataStatus_query(p)
    \/ \E p \in StatusProcs : getDataStatus_markSuccess(p)
    \/ \E p \in StatusProcs : getDataStatus_refund(p)

SpecStatus == InitStatus /\ [][NextStatus]_vars

(***************************************************************************)
(* Notify: the funding webhooks of Replay while the real-time notifier may *)
(* be uninitialised or failing.                                            *)
(***************************************************************************)
NextNotify ==
    \/ NextReplay
    \/ SocketChanges

SpecNotify == InitFund /\ [][NextNotify]_vars

(***************************************************************************)
(* Fee Policy over its range: a transfer of an amount at or next to each   *)
(* tier boundary is verified and credited through either gateway's         *)
(* handler.                                                                *)
(***************************************************************************)
GrossRange == {1, 30, 40, 41, 2540, 2541, 102000, 102001}

InitFeeRange ==
    /\ wallet = [balance |-> 0, totalSpent |-> 0]
    /\ txn = NoRow
    /\ gateway \in {"FLW", "MONNIFY"}
    /\ kyc = TRUE
    /\ \E g \in GrossRange : upstream = [status |-> "successful", paid |-> g]
    /\ stale = FALSE
    /\ abandoned = FALSE
    /\ outage = FALSE
    /\ call = NoCall
    /\ io = TRUE
    /\ run = NoRun
    /\ va = NoVA
    /\ auth = NoAuth
    /\ pc = [p \in FundProcs |-> "idle"]
    /\ loc = [p \in FundProcs |-> NoLoc]
    /\ hist = NoHist

SpecFeeRange == InitFeeRange /\ [][NextFee]_vars

(***************************************************************************)
(* Retry: gateway calls of each kind, every request of which may succeed,  *)
(* be refused, be answered 5xx or fail on the network.                     *)
(***************************************************************************)
InitRetry ==
    /\ wallet = [balance |-> 0, totalSpent |-> 0]
    /\ txn = NoRow
    /\ gateway = "NONE"
    /\ kyc = FALSE
    /\ upstream = [status |-> "notfound", paid |-> 0]
    /\ stale = FALSE
    /\ abandoned = FALSE
    /\ outage = FALSE
    /\ call = NoCall
    /\ io = TRUE
    /\ run = NoRun
    /\ va = NoVA
    /\ auth = NoAuth
    /\ pc = [p \in {} |-> "idle"]
    /\ loc = [p \in {} |-> NoLoc]
    /\ hist = NoHist

NextRetry ==
    \/ \E fn \in CallKinds : gatewayCall_start(fn)
    \/ gatewayCall_attempt

SpecRetry == InitRetry /\ [][NextRetry]_vars

(***************************************************************************)
(* Claims about funding finalisation.                                      *)
(***************************************************************************)
\* C1: over any interleaving of webhook deliveries and scheduler runs on one
\* funding payment, the wallet is credited exactly once: never more than one
\* credit, and exactly one when the Transaction is SUCCESS.
C1_CreditedExactlyOnce ==
    /\ hist.credits <= 1
    /\ txn.status = "SUCCESS" => hist.credits = 1

\* C2: a step changes the Transaction or the Wallet only if it finds the
\* Transaction PENDING; the Wallet changes only in a step that moves the
\* Transaction out of PENDING, and does change when that move is to SUCCESS.
C2_OnlyPendingIsFinalised ==
    [][ /\ txn.status # "PENDING" => (txn' = txn /\ wallet' = wallet)
        /\ wallet' # wallet => (txn.status = "PENDING" /\ txn'.status # "PENDING")
        /\ (txn.status = "PENDING" /\ txn'.status = "SUCCESS") => wallet' # wallet
      ]_vars

\* C4: when the same signed funding webhook is delivered again after the
\* first delivery was handled, the wallet holds exactly one credit (one when
\* the Transaction is SUCCESS, none otherwise), and once the Transaction is
\* SUCCESS no later delivery changes the Transaction or the Wallet.
C4_ReplayCreditsOnce ==
    /\ [](hist.credits = IF txn.status = "SUCCESS" THEN 1 ELSE 0)
    /\ [][txn.status = "SUCCESS" => (txn' = txn /\ wallet' = wallet)]_vars

\* a second delivery reached its database step and was suppressed
C4_Witness ==
    /\ \A p \in WebhookProcs : pc[p] = "done" /\ loc[p].resp = "200"
    /\ hist.suppressed >= 1
    /\ hist.credits = 1
    /\ wallet.balance > 0

\* C6: a funding Transaction that is PENDING past the staleness window while
\* the gateway reports definitive success is never moved to FAILED by the
\* scheduler, and is credited at most once, exactly once when it is SUCCESS.
C6_RecoveredToSuccessOnce ==
    upstream.status = "successful" =>
        /\ txn.status \in {"PENDING", "SUCCESS"}
        /\ hist.credits <= 1
        /\ txn.status = "SUCCESS" => hist.credits = 1

(***************************************************************************)
(* Claims about purchases.                                                 *)
(***************************************************************************)
\* C3: the refund of a service Transaction (balance credited back,
\* totalSpent decremented by the debited amount) is applied at most once,
\* whatever the interleaving of webhook, scheduler, status query and the
\* purchase request's own failure handling.
C3_RefundAtMostOnce ==
    /\ hist.refunds <= 1
    /\ wallet.totalSpent >= 0

\* C5: every Transaction debited by a purchase eventually reaches SUCCESS,
\* or FAILED with its debit reversed; it does not stay PENDING for ever.
C5_DebitNeverAbandoned ==
    (hist.debits = 1) ~>
        \/ txn.status = "SUCCESS"
        \/ (txn.status = "FAILED" /\ hist.refunds >= 1)

\* C7: in every vertical, the step in which the purchase handler handles a
\* network or timeout error of the fulfilment call changes neither the
\* Transaction (it stays as it was, PENDING) nor the Wallet.
C7_TimeoutLeavesPending ==
    [][ (/\ pc[Buyer] = "b_catch"
         /\ isNetworkError(loc[Buyer].outcome)
         /\ pc'[Buyer] = "done")
        => (txn' = txn /\ wallet' = wallet) ]_vars

\* C8: while the price of the request exceeds the wallet balance, no step
\* creates the Transaction or changes the Wallet, and a request rejected
\* with 402 has created no Transaction and debited nothing.
C8_InsufficientBalanceNoMutation ==
    /\ [](loc[Buyer].resp = "402" =>
            (txn.status = "NONE" /\ hist.debits = 0 /\ wallet.totalSpent = 0))
    /\ [][ (/\ txn.status = "NONE"
            /\ pc[Buyer] # "idle"
            /\ wallet.balance < loc[Buyer].amount)
           => (wallet' = wallet /\ txn' = txn) ]_vars

\* the request was rejected for insufficient balance
C8_Witness ==
    /\ pc[Buyer] = "done" /\ loc[Buyer].resp = "402"
    /\ \A price \in Prices : wallet.balance < price
    /\ wallet.balance \in OpeningBalances
    /\ txn.status = "NONE"

\* C9: in every reachable state, also after a crash or a storage error, the
\* purchase debit has been applied exactly if the Transaction row exists,
\* and the row is created (as PENDING) in the very step that debits.
C9_DebitIffTransaction ==
    /\ [](hist.debits = IF txn.status = "NONE" THEN 0 ELSE 1)
    /\ [](txn.status = "NONE" => wallet.totalSpent = 0)
    /\ [][ (wallet'.balance < wallet.balance)
           <=> (txn.status = "NONE" /\ txn'.status = "PENDING") ]_vars

\* the handler died right after the debit committed
C9_Witness ==
    /\ pc[Buyer] = "crashed"
    /\ txn.status = "PENDING"
    /\ hist.debits = 1
    /\ wallet.totalSpent = txn.amount

\* C10: a step that moves the Transaction to FAILED credits the balance back
\* by the debited amount and decrements totalSpent by it in the same step,
\* and the handler's step after a definitive rejection is such a step (or,
\* when the refund transaction rolls back, changes nothing).
C10_RejectionRefundsAtomically ==
    [][ /\ (txn.status # "FAILED" /\ txn'.status = "FAILED") =>
              wallet' = [balance |-> wallet.balance + txn.amount,
                         totalSpent |-> wallet.totalSpent - txn.amount]
        /\ (/\ pc[Buyer] = "b_catch"
            /\ loc[Buyer].outcome = "rejected"
            /\ pc'[Buyer] = "done") =>
              \/ /\ txn'.status = "FAILED"
                 /\ wallet' = [balance |-> wallet.balance + loc[Buyer].amount,
                               totalSpent |-> wallet.totalSpent - loc[Buyer].amount]
              \/ (txn' = txn /\ wallet' = wallet /\ loc'[Buyer].resp = "500")
      ]_vars

\* the provider rejected the order and the handler refunded it
C10_Witness ==
    /\ pc[Buyer] = "done" /\ loc[Buyer].resp = "502"
    /\ txn.type \in VTPASS_TYPES /\ upstream.status = "failed"
    /\ txn.status = "FAILED"
    /\ hist.refunds = 1
    /\ wallet.totalSpent = 0

(***************************************************************************)
(* Claims about the Wallet, the webhooks and the pricing.                  *)
(***************************************************************************)
\* C11: the Wallet balance is never negative, also when two purchases of
\* the same user run concurrently and when the status job re-debits a
\* Transaction that had been refunded.
C11_BalanceNeverNegative == wallet.balance >= 0

\* C12: a webhook request whose signature does not verify is answered 401
\* and nothing further is processed for it: every step its handler takes
\* ends the request with 401 and leaves Transaction and Wallet as they were.
C12_UnsignedWebhookRejected ==
    [][\A p \in DOMAIN pc :
          (/\ <<pc[p], loc[p]>> # <<pc'[p], loc'[p]>>
           /\ (loc[p].sig = "bad" \/ loc'[p].sig = "bad"))
          => (/\ pc'[p] = "done" /\ loc'[p].resp = "401"
              /\ UNCHANGED <<wallet, txn>>)]_vars

\* C13: a funding webhook whose re-verification at the gateway does not
\* report a successful payment is rejected there: the handler returns, and
\* neither the Transaction nor the Wallet is changed by it, then or later.
C13_UnverifiedFundingRejected ==
    [][\A p \in WebhookProcs :
          /\ (pc[p] = "verify" /\ pc'[p] # "verify"
              /\ upstream.status # "successful")
             => (pc'[p] = "done" /\ UNCHANGED <<wallet, txn>>)
          /\ pc[p] = "done" => (pc'[p] = "done" /\ loc'[p] = loc[p])]_vars

\* a webhook was rejected at re-verification and the Transaction is still
\* PENDING with nothing credited
C13_Witness ==
    \E p \in WebhookProcs :
        /\ pc[p] = "done" /\ loc[p].outcome = "unverified"
        /\ txn.status = "PENDING" /\ wallet.balance = 0

\* C14: a verified funding event that leads to no user - no Transaction
\* carries its reference and no KycData row exists for its dedicated
\* account - is never credited: no wallet balance changes and no
\* Transaction is recorded for it.
C14_UnassociatedNeverCredited ==
    ~kyc => (wallet.balance = 0 /\ hist.credits = 0 /\ txn = NoRow)

\* both kinds of verified event were dropped at association: one for an
\* unknown reference, one for an unlinked dedicated account
C14_Witness ==
    /\ ~kyc /\ upstream.status = "successful"
    /\ \E p, q \in WebhookProcs :
          /\ pc[p] = "done" /\ loc[p].outcome = "unassociated"
          /\ pc[q] = "done" /\ loc[q].outcome = "unassociated"
          /\ p # q

\* C15: a Transaction status is terminal once set: from SUCCESS, FAILED or
\* REVERSED no step changes it again, except that a FAILED Transaction may
\* be corrected to SUCCESS.
C15_TerminalStatusIsFinal ==
    [][txn.status \in {"SUCCESS", "FAILED", "REVERSED"}
          => \/ txn'.status = txn.status
             \/ txn.status = "FAILED" /\ txn'.status = "SUCCESS"]_vars

\* C16: a fulfilment webhook for a Transaction that does not exist or is no
\* longer PENDING is ignored: the step in which the webhook handler writes
\* finds the Transaction PENDING, whatever ran since the handler read it;
\* otherwise the handler changes neither the Transaction nor the Wallet.
C16_VendWebhookIgnoredUnlessPending ==
    [][\A p \in VendWebhookProcs :
          (pc[p] # pc'[p] /\ txn.status # "PENDING")
             => UNCHANGED <<wallet, txn>>]_vars

\* C17: a fulfilment webhook that reports delivery changes only the
\* Transaction - status SUCCESS with the provider's reference and token -
\* and never the Wallet: balance and totalSpent stay as they were.
C17_DeliveryLeavesWallet ==
    [][\A p \in VendWebhookProcs :
          (pc[p] = "w_write" /\ pc'[p] # pc[p] /\ loc[p].outcome = "delivered")
             => /\ wallet' = wallet
                /\ \/ txn' = txn
                   \/ txn' = [txn EXCEPT !.status = "SUCCESS",
                                         !.provRef = TRUE]]_vars

\* the webhook has marked the Transaction SUCCESS while the purchase handler
\* has not written yet, and the debit is still in place
C17_Witness ==
    /\ txn.status = "SUCCESS" /\ pc[Buyer] = "b_update"
    /\ \E p \in VendWebhookProcs : pc[p] = "done"
    /\ wallet.totalSpent = txn.amount /\ hist.refunds = 0

\* C18: the Fee Policy returns net credit 1960 for gross 2000, 2500 for
\* 2540, 49000 for 50000, 148000 for 150000 and 0 for 30; a handler that
\* credits a received amount stated truthfully credits exactly that.
C18_FeePolicyExamples ==
    \A e \in FeeExamples :
        /\ getWalletCreditAmount(e[1]) = e[2]
        /\ \A p \in WebhookProcs :
              (pc[p] = "create" /\ loc[p].gross = e[1])
                 => getWalletCreditAmount(loc[p].gross) = e[2]
        /\ (txn.status = "SUCCESS" /\ txn.amount + txn.fee = e[1])
              => (txn.amount = e[2] /\ wallet.balance = e[2])

\* 150000 was received and 148000 credited
C18_Witness ==
    /\ upstream.paid = 150000
    /\ txn.status = "SUCCESS" /\ txn.amount + txn.fee = 150000
    /\ wallet.balance = 148000

\* C19: for a catalog-priced item the amount debited (and recorded on the
\* Transaction) is the price in the provider's catalog, whatever amount the
\* client sent.
C19_DebitIsCatalogPrice ==
    (txn.status # "NONE" /\ txn.type \in CatalogPriced)
       => (txn.amount \in Prices /\ wallet.totalSpent \in Prices \cup {0})

\* C20: when the provider has accepted the order but not yet delivered it,
\* the purchase handler finalises neither way: the step that records the
\* provider's answer leaves the Transaction PENDING and the Wallet untouched.
C20_AcceptedNotDeliveredStaysPending ==
    [][\A p \in BuyerProcs :
          (pc[p] = "b_update" /\ pc'[p] = "done" /\ upstream.status = "pending")
             => (txn'.status = "PENDING" /\ wallet' = wallet)]_vars

(***************************************************************************)
(* Claims about the scheduler, the acknowledgement, sessions and amounts.  *)
(***************************************************************************)
\* C21: a scheduler run that marks a funding Transaction FAILED because the
\* gateway does not know its reference does so only once the Transaction is
\* older than the abandonment window, and leaves the Wallet as it was.
C21_NotFoundFailsOnlyAbandoned ==
    [][\A p \in SweepProcs :
          (/\ pc[p] = "m_markfailed" /\ pc'[p] # pc[p]
           /\ gatewayView("MONNIFY") = "notfound"
           /\ txn.status = "PENDING" /\ txn'.status = "FAILED")
          => (abandoned /\ wallet' = wallet)]_vars

\* C22: a webhook handler sends its 200 acknowledgement only for a request
\* whose signature has verified, sends it before it attempts any ledger
\* write, and the response stays 200 whatever the later processing does.
C22_AckAfterSignatureBeforeLedger ==
    [][\A p \in DOMAIN pc \cap (WebhookProcs \cup VendWebhookProcs) :
          /\ loc'[p].resp = "200" => (loc[p].sig # "bad" /\ loc'[p].sig # "bad")
          /\ (pc'[p] # pc[p] /\ <<wallet, txn>>' # <<wallet, txn>>)
                => loc[p].resp = "200"
          /\ (loc[p].resp = "200" /\ pc[p] # "idle") => loc'[p].resp = "200"]_vars

\* C23: however many refresh requests present one refresh token, and however
\* they interleave, the token is revoked once used and at most one new
\* access/refresh pair is ever handed out for it.
C23_RefreshTokenYieldsOnePair ==
    /\ auth.issued <= 1
    /\ auth.issued >= 1 => auth.revoked

\* C24: once five login attempts for an account have failed, an attempt made
\* after the fifth failure is not accepted, even with the right password,
\* until fifteen minutes have passed since that failure.
C24_LockedOutAfterFiveFailures ==
    [][\A p \in LoginProcs :
          (pc[p] = "l_update" /\ loc[p].late /\ auth.window = "within")
             => loc'[p].resp # "200"]_vars

\* C25: in every reachable state the Wallet's balance is what funding has
\* credited (here the opening balance) minus the amounts of the service
\* Transactions that are PENDING or SUCCESS, and totalSpent is the sum of
\* those amounts; a FAILED or REVERSED Transaction contributes nothing.
C25_LedgerMatchesTransactions ==
    LET spent == IF txn.status \in {"PENDING", "SUCCESS"} THEN txn.amount ELSE 0
    IN /\ wallet.totalSpent = spent
       /\ wallet.balance + spent \in OpeningBalances

\* C26: whichever handler finalises a funding payment (a webhook or a
\* scheduler job, of any gateway), the amount it adds to the Wallet is the
\* Fee Policy's net credit of the gross amount the gateway reports as paid.
C26_CreditIsFeePolicyNet ==
    [][wallet'.balance # wallet.balance =>
          wallet'.balance - wallet.balance = getWalletCreditAmount(upstream.paid)]_vars

\* C27: the amount a funding webhook adds to the Wallet is computed from the
\* amount the gateway's verify call returns for the payment, whatever amount
\* the webhook payload carries.
C27_WebhookCreditsVerifiedAmount ==
    [][\A p \in DOMAIN pc \cap WebhookProcs :
          (pc[p] = "commit" /\ pc'[p] # pc[p] /\ hist'.credits > hist.credits)
             => wallet'.balance = wallet.balance + getWalletCreditAmount(upstream.paid)]_vars

\* C28: when the status job corrects a FAILED (refunded) Transaction to
\* SUCCESS the Wallet is re-debited by the Transaction amount once: a
\* re-debit happens only in a step that itself turns the Transaction from
\* FAILED to SUCCESS, however many runs repeat or overlap.
C28_ReDebitOncePerCorrection ==
    [][\A p \in DOMAIN pc \cap SweepProcs :
          (pc[p] = "n_success" /\ pc'[p] # pc[p] /\ wallet' # wallet)
             => /\ txn.status = "FAILED" /\ txn'.status = "SUCCESS"
                /\ wallet' = [balance |-> wallet.balance - txn.amount,
                              totalSpent |-> wallet.totalSpent + txn.amount]]_vars

\* C29: every distinct successful transfer into a dedicated account is
\* credited exactly once: when the handler has processed the event of a
\* transfer, a Transaction for that transfer's id exists (and the rows'
\* ids are distinct), however many transfers the account received before.
C29_EachTransferCreditedOnce ==
    /\ [](hist.credits = Cardinality({r.providerReference : r \in va.rows}))
    /\ [][\A p \in DOMAIN pc \cap WebhookProcs :
             (pc[p] = "create" /\ pc'[p] # pc[p] /\ hist' # hist)
                => \E r \in va'.rows : r.providerReference = loc[p].flwId]_vars

\* C30: a funding payment that the gateway reports as successful is
\* eventually credited to the wallet, also when a scheduler job has marked
\* its Transaction FAILED before (as not found or abandoned).
C30_PaidIsEventuallyCredited ==
    (upstream.status = "successful") ~> (txn.status = "SUCCESS" /\ hist.credits >= 1)

(***************************************************************************)
(* Claims about error handling, the scheduler's selection and the Fee      *)
(* Policy's arithmetic.                                                    *)
(***************************************************************************)
\* C31: a purchase's debit is reversed only when the provider rejected the
\* purchase: when the handler's error is a local one raised after the
\* provider accepted or delivered (the write recording the result failed),
\* the handler does not refund.
C31_LocalErrorNeverRefunds ==
    [][\A p \in DOMAIN pc \cap BuyerProcs :
          (pc[p] = "b_catch" /\ pc'[p] # pc[p] /\ loc[p].outcome = "storage")
             => (hist'.refunds = hist.refunds /\ wallet' = wallet)]_vars

\* C32: a sweep or a status query decides to refund only when the provider
\* definitively reports the order failed, reversed or never placed: while the
\* provider's query API answers with an error code, the Transaction stays
\* PENDING and nothing is refunded.
C32_RefundOnlyOnDefinitiveFailure ==
    [][\A p \in DOMAIN pc :
          (pc[p] \in {"v_query", "q_query"} /\ pc'[p] \in {"v_refund", "q_refund"})
             => (~outage /\ upstream.status \in {"failed", "notfound"})]_vars

\* C33: every Transaction a run of a scheduler selects for reconciliation is
\* PENDING and older than the staleness window.
C33_SelectsOnlyStalePending ==
    [][\A p \in DOMAIN pc \cap SweepProcs :
          (pc[p] = "idle" /\ pc'[p] \in {"u_verify", "v_query", "l_query",
                                        "m_verify", "p_verify", "n_query"})
             => (txn.status = "PENDING" /\ stale)]_vars

C36_NotifierFailureKeepsCommit ==
    [][hist'.socketErrors # hist.socketErrors
          => /\ hist'.credits = hist.credits + 1
             /\ wallet'.balance > wallet.balance
             /\ txn'.status = "SUCCESS"]_vars

\* a funding was credited although its notification failed
C36_CreditedWithoutNotification ==
    /\ hist.socketErrors > 0 /\ hist.credits > 0
    /\ txn.status = "SUCCESS" /\ wallet.balance > 0

\* C37: for every gross amount g >= 0 the Fee Policy's net credit c
\* satisfies 0 <= c <= g, so the fee g - c is never negative and never more
\* than the amount received; a handler about to credit, and a Transaction it
\* has credited, carry such a credit and fee.
C37_NetCreditWithinGross ==
    /\ \A g \in GrossRange \cup GrossSet \cup {0} :
          /\ 0 <= getWalletCreditAmount(g) /\ getWalletCreditAmount(g) <= g
          /\ platformFee(g, getWalletCreditAmount(g)) = g - getWalletCreditAmount(g)
    /\ \A p \in WebhookProcs :
          pc[p] = "create"
             => /\ 0 <= getWalletCreditAmount(loc[p].gross)
                /\ getWalletCreditAmount(loc[p].gross) <= loc[p].gross
    /\ txn.status = "SUCCESS"
          => /\ 0 <= txn.amount /\ 0 <= txn.fee
             /\ wallet.balance = txn.amount

\* 102001 was received, 100001 credited and the capped fee of 2000 kept
C37_CappedFeeCredited ==
    /\ upstream.paid = 102001
    /\ txn.status = "SUCCESS" /\ txn.amount = 100001 /\ txn.fee = 2000
    /\ wallet.balance = 100001

\* C38: the Fee Policy is monotonically non-decreasing: once an amount has
\* been received and credited, no smaller amount would have earned a larger
\* net credit.
C38_PayingMoreNeverCreditsLess ==
    \A a \in GrossRange :
        (txn.status = "SUCCESS" /\ a <= txn.amount + txn.fee)
           => getWalletCreditAmount(a) <= wallet.balance

\* C39: a gateway call whose every request failed with a network error or a
\* 5xx response has been retried, with delays that double from one retry to
\* the next, at most a fixed number of times, and ends by surfacing a
\* failure, not a success, to its caller.
C39_TransientFailureRetriedThenSurfaced ==
    (/\ call.state \in {"returned", "threw"}
     /\ Len(call.errors) = call.requests
     /\ \A i \in DOMAIN call.errors : call.errors[i] \in {"5xx", "network"})
       => /\ Len(call.delays) >= 1
          /\ Len(call.delays) <= RequestRetries
          /\ \A i \in DOMAIN call.delays :
                call.delays[i] = IF i = 1 THEN InitialBackoff
                                 ELSE 2 * call.delays[i - 1]
          /\ call.result # "200"

=============================================================================
